---- MODULE Spec2Model ----
(***************************************************************************)
(* A state-machine model of the blackjack reward-distribution solver       *)
(* (RewardDistribution), of its two consumers (OptimalStrategist,          *)
(* KellyBettor) and of the test wrapper (WrappedRewardDistribution).       *)
(*                                                                         *)
(* The recursion of the solver is modelled with an explicit call stack:    *)
(* every frame holds the arguments, the locals and the position (pc) of    *)
(* one activation, and every step of the model is one step of the          *)
(* activation on top of the stack.  C doubles are modelled as exact        *)
(* rationals <<numerator, denominator>> extended with NaN (<<0, 0>>), the  *)
(* value 0.0/0.0 has under cdivision.                                      *)
(***************************************************************************)
EXTENDS Integers, Sequences, FiniteSets, TLC

VARIABLES
    rule_variation,  \* the process-wide rule record (bbwrl.environments)
    constructed,     \* TRUE once RewardDistribution.__cinit__ has run
    printed,         \* what __cinit__ printed
    utility,         \* RewardDistribution.utility[17]
    consts,          \* CONSTANT_TIE / WIN / BLACKJACK / LOSE (heap contents)
    card_distr,      \* RewardDistribution.card_distr: the working shoe
    precomp_distr,   \* RewardDistribution.precomp_distr: key -> distribution
    caller_shoe,     \* the caller's shoe object (card_distribution argument)
    stack,           \* the call stack, innermost activation first
    ret,             \* the value returned by the activation that ended last
    script,          \* the calls the client program still has to make
    out,             \* the results the client program has received
    assigned,        \* history: per cache key, the assignments since free_mem
    starved,         \* history: a draw found no drawable card since then
    probe            \* the input/output pair of the pure-function checks

vars == <<rule_variation, constructed, printed, utility, consts, card_distr,
          precomp_distr, caller_shoe, stack, ret, script, out, assigned,
          starved, probe>>

-----------------------------------------------------------------------------
(* Bounds of the model.                                                    *)

\* The largest number of cards in a shoe handed to the solver.
MaxCards == 3

\* The number of fields of a hash input that differ from zero in the
\* pure-function check of get_state_hash.
MaxTouched == 2

-----------------------------------------------------------------------------
(* Doubles as exact rationals. An operator binds each operand it reads     *)
(* more than once (CHOOSE over the one-element set of results), so that an *)
(* operand is evaluated once however deep the expression it stands for.    *)

RECURSIVE GCD(_, _)
GCD(a, b) ==
    IF b = 0 THEN a ELSE CHOOSE g \in {GCD(b, r) : r \in {a % b}} : TRUE

Abs(n) == IF n < 0 THEN -n ELSE n

NaN == <<0, 0>>

IsNaN(x) == x[2] = 0

Zero == <<0, 1>>

One == <<1, 1>>

\* n/d in lowest terms, d > 0.
Rat(n, d) ==
    CHOOSE q \in {IF nv = 0 THEN Zero
                  ELSE LET g == GCD(Abs(nv), dv) IN <<nv \div g, dv \div g>> :
                  nv \in {n}, dv \in {d}} : TRUE

\* C division of two doubles holding integers, under cdivision(True): no
\* ZeroDivisionError; 0.0/0.0 is NaN.  A non-zero numerator over zero does
\* not arise from non-negative counts (the total is zero only when every
\* count is).
RDiv(a, b) ==
    IF b = 0 THEN NaN
    ELSE IF b < 0 THEN Rat(-a, -b) ELSE Rat(a, b)

RAdd(x, y) ==
    CHOOSE s \in {IF IsNaN(a) \/ IsNaN(b) THEN NaN
                  ELSE IF a[1] = 0 THEN b
                  ELSE IF b[1] = 0 THEN a
                  ELSE Rat(a[1] * b[2] + b[1] * a[2], a[2] * b[2]) :
                  a \in {x}, b \in {y}} : TRUE

RMul(x, y) ==
    CHOOSE s \in {IF IsNaN(a) \/ IsNaN(b) THEN NaN
                  ELSE IF a[1] = 0 \/ b[1] = 0 THEN Zero
                  ELSE Rat(a[1] * b[1], a[2] * b[2]) :
                  a \in {x}, b \in {y}} : TRUE

RSub(x, y) == RAdd(x, RMul(<<-1, 1>>, y))

\* x > y on doubles: false as soon as one side is NaN.
RGt(x, y) ==
    \E a \in {x} : \E b \in {y} :
        /\ ~IsNaN(a)
        /\ ~IsNaN(b)
        /\ a[1] * b[2] > b[1] * a[2]

RLt(x, y) == RGt(y, x)

REq(x, y) == ~IsNaN(x) /\ ~IsNaN(y) /\ x = y

RECURSIVE RSum(_, _, _)
\* The sum f[lo] + ... + f[hi], exact whatever the order: the two halves
\* are summed and added.
RSum(f, lo, hi) ==
    IF lo > hi THEN Zero
    ELSE IF lo = hi THEN f[lo]
    ELSE RAdd(RSum(f, lo, (lo + hi) \div 2),
              RSum(f, (lo + hi) \div 2 + 1, hi))

-----------------------------------------------------------------------------
(* Cards.                                                                  *)

Ranks == 1..13

Buckets == 0..16

get_value(card) ==
    IF card = 1 THEN 11
    ELSE IF card < 10 THEN card
    ELSE 10

\* reward_distribution.is_ace takes a card VALUE (11 is the ace).
is_ace(card_value) == IF card_value = 11 THEN 1 ELSE 0

\* kelly_bettor.is_ace takes a CARD (1 is the ace).
kelly_is_ace(card) == IF card = 1 THEN 1 ELSE 0

RECURSIVE ShoeSum(_, _)
ShoeSum(shoe, i) == IF i > 13 THEN 0 ELSE shoe[i] + ShoeSum(shoe, i + 1)

CardsLeft(shoe) == ShoeSum(shoe, 1)

-----------------------------------------------------------------------------
(* The distribution algebra.                                               *)

empty_distr == [i \in Buckets |-> Zero]

\* constant_distr(value): mass 1 at bucket int(value*2+8); twice is 2*value.
constant_distr(twice) == [i \in Buckets |-> IF i = twice + 8 THEN One ELSE Zero]

add(distr1, distr2, scalar) ==
    CHOOSE d \in {[i \in Buckets |-> RAdd(d1[i], RMul(sc, d2[i]))] :
                  d1 \in {distr1}, d2 \in {distr2}, sc \in {scalar}} : TRUE

\* The distribution as it is, its payouts not doubled.
NotDoubled(distr) == distr

\* The doubling that keeps the payouts -1/2..+1/2 only: range(7,10).
DoubleNarrow(distr) ==
    [k \in Buckets |->
        IF k % 2 = 0 /\ (k + 8) \div 2 >= 7 /\ (k + 8) \div 2 < 10
        THEN distr[(k + 8) \div 2]
        ELSE Zero]

double_distr(distr) ==
    [k \in Buckets |->
        IF k % 2 = 0 /\ (k + 8) \div 2 >= 4 /\ (k + 8) \div 2 < 13
        THEN distr[(k + 8) \div 2]
        ELSE Zero]

RECURSIVE ConvSum(_, _, _)
\* The sum of distr[i]*distr[k+8-i] over the i in lo..16 with k+8-i in 0..16.
ConvSum(distr, k, i) ==
    IF i > 16 THEN Zero
    ELSE IF k + 8 - i \in Buckets
         THEN RAdd(RMul(distr[i], distr[k + 8 - i]), ConvSum(distr, k, i + 1))
         ELSE ConvSum(distr, k, i + 1)

\* The per-sub-hand distribution as it is, not convolved with itself.
NotConvolved(distr) == distr

double_variable(distr) == [k \in Buckets |-> ConvSum(distr, k, 0)]

Mass(distr) == RSum(distr, 0, 16)

\* The expected payout: bucket i pays (i - 8)/2.
Payout(i) == Rat(i - 8, 2)

ExpectedValue(distr) ==
    RSum([i \in Buckets |-> RMul(distr[i], Payout(i))], 0, 16)

distribution_value(distr) ==
    RSum([i \in Buckets |-> RMul(distr[i], utility[i])], 0, 16)

-----------------------------------------------------------------------------
(* The state hasher.  The int128 key is kept as its digits: h[1] is the    *)
(* decimal units digit, h[2..16] are the fifteen two-digit groups above it *)
(* and h[17] is everything above those, so two keys are equal exactly when *)
(* the integers are.                                                       *)

ZeroKey == [i \in 1..17 |-> 0]

RECURSIVE AddAt(_, _, _)
\* hash += k * v, with k = 10 * 100^(pos-1): v is added to group pos and
\* the carry goes to the groups above.
AddAt(h, pos, v) ==
    CHOOSE r \in {IF vv = 0 THEN hv
                  ELSE IF pos = 16 THEN [hv EXCEPT ![17] = @ + vv]
                  ELSE CHOOSE q \in
                         {AddAt([hv EXCEPT ![pos + 1] = s % 100], pos + 1,
                                s \div 100) : s \in {hv[pos + 1] + vv}} : TRUE :
                  hv \in {h}, vv \in {v}} : TRUE

RECURSIVE HashShoe(_, _, _)
\* for i in range(1,14): hash += k * card_distr[i]; k *= 100
HashShoe(h, shoe, i) ==
    IF i > 13 THEN h
    ELSE CHOOSE r \in {HashShoe(g, shoe, i + 1) :
                          g \in {AddAt(h, i, shoe[i])}} : TRUE

\* The mode added where the first count goes: hash = 10 * mode.
ModeInCountField(mode) == AddAt(ZeroKey, 1, mode)

\* hash = mode, as a number: units digit and carry into the groups.
HashOfMode(mode) == AddAt([ZeroKey EXCEPT ![1] = mode % 10], 1, mode \div 10)

\* A key that leaves the counts of the shoe out.
HashWithoutShoe(shoe, player_total, aces, dealer_total, mode) ==
    AddAt(AddAt(AddAt(HashOfMode(mode), 14, player_total),
                15, dealer_total),
          16, aces)

get_state_hash(shoe, player_total, aces, dealer_total, mode) ==
    AddAt(AddAt(AddAt(HashShoe(HashOfMode(mode), shoe, 1),
                      14, player_total),
                15, dealer_total),
          16, aces)

\* A lookup that never finds the key.
NeverPrecomputed(hash) == FALSE

precomputed_distr(hash) == hash \in DOMAIN precomp_distr

-----------------------------------------------------------------------------
(* Drawing a card.                                                         *)

valid_card_distr(shoe, banned_value) ==
    [i \in Ranks |-> IF banned_value = get_value(i) THEN 0 ELSE shoe[i]]

\* The count of the card over all the cards left, the banned ones included.
ProbabilityOverAllCards(shoe, card, banned_value) ==
    RDiv(valid_card_distr(shoe, banned_value)[card], CardsLeft(shoe))

card_probability(shoe, card, banned_value) ==
    LET valid == valid_card_distr(shoe, banned_value)
    IN  RDiv(valid[card], CardsLeft(valid))

RECURSIVE NextCard(_, _, _, _)
\* The next iteration of "for card in range(from, last+1)" whose body runs:
\* the first card with p > 0, or last + 1 when the loop ends.
NextCard(shoe, from, last, banned_value) ==
    IF from > last THEN last + 1
    ELSE IF RGt(card_probability(shoe, from, banned_value), Zero) THEN from
    ELSE NextCard(shoe, from + 1, last, banned_value)

-----------------------------------------------------------------------------
(* Pointers and activations.                                               *)

NullPtr == <<"null", <<>>>>

ConstPtr(name) == <<"const", name>>

CachePtr(key) == <<"cache", key>>

CONSTANT_TIE == ConstPtr("TIE")

CONSTANT_WIN == ConstPtr("WIN")

CONSTANT_BLACKJACK == ConstPtr("BLACKJACK")

CONSTANT_LOSE == ConstPtr("LOSE")

\* The 17 doubles a pointer points to.
Deref(ptr) ==
    IF ptr[1] = "const" THEN consts[ptr[2]] ELSE precomp_distr[ptr[2]]

NoShoe == [i \in Ranks |-> 0]

\* An activation: the arguments (pt, aces, dt, fc), the loop variable card,
\* the locals p, distr (<<>> until empty_distr() allocates it), key (the
\* state_hash), x (a saved pointer), y (a saved array), n (a saved number),
\* and the working shoe at entry.
Frame(fn, pt, aces, dt, fc, shoe) ==
    [fn |-> fn, pc |-> "start", pt |-> pt, aces |-> aces, dt |-> dt,
     fc |-> fc, card |-> 0, p |-> Zero, distr |-> <<>>,
     key |-> <<>>, x |-> NullPtr, y |-> <<>>, n |-> 0,
     entry |-> shoe]

Top == stack[1]

Rest == Tail(stack)

Running(fn) == stack # <<>> /\ Top.fn = fn

NoRet ==
    [ptr |-> NullPtr, val |-> Zero, fn |-> "none", args |-> <<>>,
     entry |-> NoShoe, exit |-> NoShoe, computed |-> FALSE, sub |-> <<>>]

\* The arguments of an activation as they are when it returns: the total,
\* the soft aces, the dealer's total and first_call (distr_hit_stand and
\* distr_hit_stand_double assign to the first two when they demote an ace).
ArgsOf(f) == <<f.pt, f.aces, f.dt, f.fc>>

\* What an activation hands back: a pointer (ptr) or a double (val), until
\* the client's call is over or the cache it points into is released; with
\* it, for the record, the function and the arguments of the activation,
\* the working shoe at its entry and at its return, and the accumulator a
\* split or a double transformed or the two pointers a choice compared
\* (sub).
Returned(f, ptr, val, computed, sub) ==
    [ptr |-> ptr, val |-> val, fn |-> f.fn, args |-> ArgsOf(f),
     entry |-> f.entry, exit |-> card_distr, computed |-> computed,
     sub |-> sub]

\* No peek: the hidden card may have any value.
NothingBanned(f) == 0

\* The peek: the value the hidden card cannot have.
StandBanned(f) ==
    IF f.fc
    THEN IF f.dt = 11 THEN 10 ELSE IF f.dt = 10 THEN 11 ELSE 0
    ELSE 0

\* The activation on top is about to compute card probabilities on a shoe
\* with no card it may draw: each of them is 0.0/0.0.
Starving ==
    /\ stack # <<>>
    /\ \/ /\ Top.fn \in {"distr_hit", "distr_stand", "distr_double",
                         "distr_split_general", "distr_split_tens",
                         "distr_split_aces"}
          /\ Top.pc \in {"loop", "tens"}
       \/ /\ Top.fn = "distr_blackjack"
          /\ Top.dt >= 10
    /\ CardsLeft(valid_card_distr(card_distr,
                                  IF Top.fn = "distr_stand"
                                  THEN StandBanned(Top) ELSE 0)) = 0

\* What a step of the solver leaves alone.
ClientUnchanged ==
    /\ starved' = (starved \/ Starving)
    /\ UNCHANGED <<rule_variation, constructed, printed, utility, consts,
                   caller_shoe, script, out, probe>>

\* The activation on top moves on to f2.
Goto(f2) ==
    /\ stack' = <<f2>> \o Rest
    /\ UNCHANGED <<card_distr, precomp_distr, ret, assigned>>
    /\ ClientUnchanged

\* The activation on top, left as f2, calls callee on the shoe `shoe`.
Call(f2, callee, shoe) ==
    /\ stack' = <<callee, f2>> \o Rest
    /\ card_distr' = shoe
    /\ UNCHANGED <<precomp_distr, ret, assigned>>
    /\ ClientUnchanged

\* return ptr
Return(ptr) ==
    /\ stack' = Rest
    /\ ret' = Returned(Top, ptr, Zero, FALSE, <<>>)
    /\ UNCHANGED <<card_distr, precomp_distr, assigned>>
    /\ ClientUnchanged

\* self.precomp_distr[state_hash] = distr; return distr
StoreReturn(key, distr, sub) ==
    /\ stack' = Rest
    /\ precomp_distr' = (key :> distr) @@ precomp_distr
    /\ assigned' =
          (key :> IF key \in DOMAIN assigned THEN assigned[key] + 1 ELSE 1)
          @@ assigned
    /\ ret' = Returned(Top, CachePtr(key), Zero, TRUE, sub)
    /\ UNCHANGED card_distr
    /\ ClientUnchanged

\* The shoe as it is, the card not taken out.
NotRemoved(shoe, card) == shoe

\* The shoe after card_distr[card] -= 1.
Without(shoe, card) == [shoe EXCEPT ![card] = @ - 1]

\* One turn of "for card ...: p = card_probability(card, banned); if p > 0:
\* card_distr[card] -= 1; add(distr, <call>, p); ...": up to the call.
\* The iterations with p <= 0 change nothing and are skipped in the same
\* step; when the loop is over the step is AfterLoop.
Draw(f, last, banned_value, callee, addpc, AfterLoop) ==
    LET c == NextCard(card_distr, f.card, last, banned_value)
    IN  IF c <= last
        THEN Call([f EXCEPT !.pc = addpc, !.card = c,
                            !.p = card_probability(card_distr, c,
                                                   banned_value)],
                  callee[c], Without(card_distr, c))
        ELSE AfterLoop

\* The turn with add() given the distribution returned as both operands:
\* the accumulator is left alone and the distribution returned is scaled.
AccumulateInPlace(f, looppc) ==
    /\ stack' = <<[f EXCEPT !.pc = looppc, !.card = f.card + 1]>> \o Rest
    /\ card_distr' = [card_distr EXCEPT ![f.card] = @ + 1]
    /\ IF ret.ptr[1] = "const"
       THEN /\ consts' = [consts EXCEPT ![ret.ptr[2]] = add(@, @, f.p)]
            /\ UNCHANGED precomp_distr
       ELSE /\ precomp_distr' =
                  [precomp_distr EXCEPT ![ret.ptr[2]] = add(@, @, f.p)]
            /\ UNCHANGED consts
    /\ starved' = (starved \/ Starving)
    /\ UNCHANGED <<ret, assigned, rule_variation, constructed, printed,
                   utility, caller_shoe, script, out, probe>>

\* The turn without "card_distr[card] += 1".
AccumulateNoRestore(f, looppc) ==
    /\ stack' = <<[f EXCEPT !.pc = looppc, !.card = f.card + 1,
                            !.distr = add(f.distr, Deref(ret.ptr), f.p)]>>
                \o Rest
    /\ UNCHANGED <<card_distr, precomp_distr, ret, assigned>>
    /\ ClientUnchanged

\* The rest of the turn: add(distr, <returned>, p); card_distr[card] += 1.
Accumulate(f, looppc) ==
    /\ stack' = <<[f EXCEPT !.pc = looppc, !.card = f.card + 1,
                            !.distr = add(f.distr, Deref(ret.ptr), f.p)]>>
                \o Rest
    /\ card_distr' = [card_distr EXCEPT ![f.card] = @ + 1]
    /\ UNCHANGED <<precomp_distr, ret, assigned>>
    /\ ClientUnchanged

-----------------------------------------------------------------------------
(* RewardDistribution: the recursive solver.                               *)

HitFrame(pt, aces, dt, shoe) == Frame("distr_hit", pt, aces, dt, FALSE, shoe)

StandFrame(pt, dealer_aces, dt, first_call, shoe) ==
    Frame("distr_stand", pt, dealer_aces, dt, first_call, shoe)

HitStandFrame(pt, aces, dt, shoe) ==
    Frame("distr_hit_stand", pt, aces, dt, FALSE, shoe)

HitStandDoubleFrame(pt, aces, dt, shoe) ==
    Frame("distr_hit_stand_double", pt, aces, dt, FALSE, shoe)

\* The callee of one turn of the loop of distr_hit.
HitCallee(f, card, shoe) ==
    HitStandFrame(f.pt + get_value(card), f.aces + is_ace(get_value(card)),
                  f.dt, shoe)

distr_hit ==
    /\ Running("distr_hit")
    /\ LET f == Top
           HitDraw ==
               [card \in Ranks |->
                   HitCallee(f, card, Without(card_distr, card))]
       IN  CASE f.pc = "start" ->
                  IF f.pt > 21
                  THEN IF f.aces > 0
                       THEN \* Soft hand becomes hard
                            Call([f EXCEPT !.pc = "ret"],
                                 HitFrame(f.pt - 10, f.aces - 1, f.dt,
                                          card_distr),
                                 card_distr)
                       ELSE \* Player busted
                            Return(CONSTANT_LOSE)
                  ELSE LET h == get_state_hash(card_distr, f.pt, f.aces,
                                               f.dt, 2)
                       IN  IF precomputed_distr(h)
                           THEN Return(CachePtr(h))
                           ELSE Goto([f EXCEPT !.pc = "loop", !.key = h,
                                               !.distr = empty_distr,
                                               !.card = 1])
             [] f.pc = "loop" ->
                  Draw(f, 13, 0, HitDraw, "add",
                       StoreReturn(f.key, f.distr, f.distr))
             [] f.pc = "add" -> Accumulate(f, "loop")
             [] f.pc = "ret" -> Return(ret.ptr)

\* The dealer stops on every 17.
StandsOnEvery17(dealer_total, dealer_aces) == dealer_total >= 17

\* The dealer stops drawing.
DealerStands(dealer_total, dealer_aces) ==
    \/ dealer_total > 17
    \/ /\ dealer_total = 17
       /\ (dealer_aces = 0 \/ ~rule_variation.HIT_SOFT_17)

\* The outcome once the dealer has stopped.
StandOutcome(player_total, dealer_total) ==
    IF dealer_total = player_total THEN CONSTANT_TIE
    ELSE IF dealer_total > player_total THEN CONSTANT_LOSE
    ELSE CONSTANT_WIN

StandCallee(f, card, shoe) ==
    StandFrame(f.pt, f.aces + is_ace(get_value(card)),
               f.dt + get_value(card), FALSE, shoe)

distr_stand ==
    /\ Running("distr_stand")
    /\ LET f == Top
           StandDraw ==
               [card \in Ranks |->
                   StandCallee(f, card, Without(card_distr, card))]
       IN  CASE f.pc = "start" ->
                  IF f.pt > 21
                  THEN \* Player busted
                       Return(CONSTANT_LOSE)
                  ELSE IF f.dt > 21
                  THEN IF f.aces > 0
                       THEN \* Soft hand becomes hard
                            Call([f EXCEPT !.pc = "ret"],
                                 StandFrame(f.pt, f.aces - 1, f.dt - 10,
                                            FALSE, card_distr),
                                 card_distr)
                       ELSE \* Dealer busted
                            Return(CONSTANT_WIN)
                  ELSE IF DealerStands(f.dt, f.aces)
                  THEN Return(StandOutcome(f.pt, f.dt))
                  ELSE LET h == get_state_hash(card_distr, f.pt, f.aces,
                                               f.dt, IF f.fc THEN 3 ELSE 4)
                       IN  IF precomputed_distr(h)
                           THEN Return(CachePtr(h))
                           ELSE Goto([f EXCEPT !.pc = "loop", !.key = h,
                                               !.distr = empty_distr,
                                               !.card = 1])
             [] f.pc = "loop" ->
                  Draw(f, 13, StandBanned(f), StandDraw, "add",
                       StoreReturn(f.key, f.distr, f.distr))
             [] f.pc = "add" -> Accumulate(f, "loop")
             [] f.pc = "ret" -> Return(ret.ptr)

\* player_total_with_card of distr_double.
DoubleTotal(player_total, player_aces, card) ==
    LET with_card == player_total + get_value(card)
    IN  IF with_card > 21 /\ player_aces + is_ace(get_value(card)) > 0
        THEN with_card - 10
        ELSE with_card

DoubleCallee(f, card, shoe) ==
    StandFrame(DoubleTotal(f.pt, f.aces, card), is_ace(f.dt), f.dt, TRUE,
               shoe)

distr_double ==
    /\ Running("distr_double")
    /\ LET f == Top
           DoubleDraw ==
               [card \in Ranks |->
                   DoubleCallee(f, card, Without(card_distr, card))]
       IN  CASE f.pc = "start" ->
                  LET h == get_state_hash(card_distr, f.pt, f.aces, f.dt, 1)
                  IN  IF precomputed_distr(h)
                      THEN Return(CachePtr(h))
                      ELSE Goto([f EXCEPT !.pc = "loop", !.key = h,
                                          !.distr = empty_distr,
                                          !.card = 1])
             [] f.pc = "loop" ->
                  Draw(f, 13, 0, DoubleDraw, "add",
                       StoreReturn(f.key, double_distr(f.distr), f.distr))
             [] f.pc = "add" -> Accumulate(f, "loop")

\* The play of one sub-hand of a split.
SubHandFrame(pt, aces, dt, shoe) ==
    IF rule_variation.DOUBLE_AFTER_SPLIT
    THEN HitStandDoubleFrame(pt, aces, dt, shoe)
    ELSE HitStandFrame(pt, aces, dt, shoe)

SplitGeneralCallee(f, card, shoe) ==
    SubHandFrame(f.pt + get_value(card), is_ace(get_value(card)), f.dt, shoe)

\* The frame of distr_split_general holds player_card in pt.
distr_split_general ==
    /\ Running("distr_split_general")
    /\ LET f == Top
           GeneralDraw ==
               [card \in Ranks |->
                   SplitGeneralCallee(f, card, Without(card_distr, card))]
       IN  CASE f.pc = "start" ->
                  LET h == get_state_hash(card_distr, f.pt, 0, f.dt, 0)
                  IN  IF precomputed_distr(h)
                      THEN Return(CachePtr(h))
                      ELSE Goto([f EXCEPT !.pc = "loop", !.key = h,
                                          !.distr = empty_distr,
                                          !.card = 1])
             [] f.pc = "loop" ->
                  Draw(f, 13, 0, GeneralDraw, "add",
                       StoreReturn(f.key, double_variable(f.distr), f.distr))
             [] f.pc = "add" -> Accumulate(f, "loop")

SplitTensCallee(f, card, shoe) ==
    SubHandFrame(10 + get_value(card), 0, f.dt, shoe)

\* The accumulator of distr_split_tens after its loop: the ace is a blackjack.
TensWithAce(distr, shoe) ==
    LET p == card_probability(shoe, 1, 0)
    IN  IF RGt(p, Zero) THEN add(distr, Deref(CONSTANT_BLACKJACK), p)
        ELSE distr

distr_split_tens ==
    /\ Running("distr_split_tens")
    /\ LET f == Top
           TensDraw ==
               [card \in Ranks |->
                   SplitTensCallee(f, card, Without(card_distr, card))]
       IN  CASE f.pc = "start" ->
                  LET h == get_state_hash(card_distr, 10, 0, f.dt, 0)
                  IN  IF precomputed_distr(h)
                      THEN Return(CachePtr(h))
                      ELSE Goto([f EXCEPT !.pc = "loop", !.key = h,
                                          !.distr = empty_distr,
                                          !.card = 2])
             [] f.pc = "loop" ->
                  Draw(f, 13, 0, TensDraw, "add",
                       StoreReturn(f.key,
                                   double_variable(
                                       TensWithAce(f.distr, card_distr)),
                                   TensWithAce(f.distr, card_distr)))
             [] f.pc = "add" -> Accumulate(f, "loop")

\* The sub-hand of a split ace stands whatever the rules.
ForcedStand(f, card, shoe) ==
    StandFrame(11 + card, is_ace(f.dt), f.dt, TRUE, shoe)

SplitAcesCallee(f, card, shoe) ==
    IF rule_variation.HIT_AFTER_SPLIT_ACES
    THEN SubHandFrame(11 + card, 1, f.dt, shoe)
    ELSE StandFrame(11 + card, is_ace(f.dt), f.dt, TRUE, shoe)

SplitAcesTenCallee(f, card, shoe) ==
    StandFrame(21, is_ace(f.dt), f.dt, TRUE, shoe)

RECURSIVE AcesWithTens(_, _, _)
\* The second loop of distr_split_aces under BLACKJACK_WITH_SPLIT_ACES:
\* for card in range(10,14): if p > 0: add(distr, CONSTANT_BLACKJACK, p)
AcesWithTens(distr, shoe, card) ==
    IF card > 13 THEN distr
    ELSE LET p == card_probability(shoe, card, 0)
         IN  AcesWithTens(IF RGt(p, Zero)
                          THEN add(distr, Deref(CONSTANT_BLACKJACK), p)
                          ELSE distr,
                          shoe, card + 1)

distr_split_aces ==
    /\ Running("distr_split_aces")
    /\ LET f == Top
           AcesDraw ==
               [card \in Ranks |->
                   SplitAcesCallee(f, card, Without(card_distr, card))]
           AcesTenDraw ==
               [card \in Ranks |->
                   SplitAcesTenCallee(f, card, Without(card_distr, card))]
       IN  CASE f.pc = "start" ->
                  LET h == get_state_hash(card_distr, 11, 1, f.dt, 0)
                  IN  IF precomputed_distr(h)
                      THEN Return(CachePtr(h))
                      ELSE Goto([f EXCEPT !.pc = "loop", !.key = h,
                                          !.distr = empty_distr,
                                          !.card = 1])
             [] f.pc = "loop" ->
                  Draw(f, 9, 0, AcesDraw, "add",
                       Goto([f EXCEPT !.pc = "tens", !.card = 10]))
             [] f.pc = "add" -> Accumulate(f, "loop")
             [] f.pc = "tens" ->
                  IF rule_variation.BLACKJACK_WITH_SPLIT_ACES
                  THEN LET d == AcesWithTens(f.distr, card_distr, 10)
                       IN  StoreReturn(f.key, double_variable(d), d)
                  ELSE Draw(f, 13, 0, AcesTenDraw, "addten",
                            StoreReturn(f.key, double_variable(f.distr),
                                        f.distr))
             [] f.pc = "addten" -> Accumulate(f, "tens")

\* The frame of distr_split is entered with pc = "start" and ends by
\* returning what the function it dispatched to returned.
distr_split ==
    /\ Running("distr_split")
    /\ LET f == Top
       IN  CASE f.pc = "start" ->
                  Call([f EXCEPT !.pc = "ret"],
                       IF f.aces > 0
                       THEN Frame("distr_split_aces", 0, 0, f.dt, FALSE,
                                  card_distr)
                       ELSE IF f.pt = 20
                       THEN Frame("distr_split_tens", 0, 0, f.dt, FALSE,
                                  card_distr)
                       ELSE Frame("distr_split_general", f.pt \div 2, 0,
                                  f.dt, FALSE, card_distr),
                       card_distr)
             [] f.pc = "ret" -> Return(ret.ptr)

\* if player_total > 21 and player_aces > 0: demote one soft ace.
Demoted(f) ==
    IF f.pt > 21 /\ f.aces > 0
    THEN [f EXCEPT !.pt = f.pt - 10, !.aces = f.aces - 1]
    ELSE f

\* a if value(a) < value(b) else b
Worse(a, b) ==
    IF RLt(distribution_value(Deref(a)), distribution_value(Deref(b)))
    THEN a
    ELSE b

\* a unless value(a) < value(b)
FirstOnTie(a, b) ==
    IF RLt(distribution_value(Deref(a)), distribution_value(Deref(b)))
    THEN b
    ELSE a

\* a if value(a) > value(b) else b
Better(a, b) ==
    IF RGt(distribution_value(Deref(a)), distribution_value(Deref(b)))
    THEN a
    ELSE b

\* return a if value(a) > value(b) else b; for the record, the two
\* pointers compared.
ReturnBetter(a, b) ==
    /\ stack' = Rest
    /\ ret' = Returned(Top, Better(a, b), Zero, FALSE, <<a, b>>)
    /\ UNCHANGED <<card_distr, precomp_distr, assigned>>
    /\ ClientUnchanged

distr_hit_stand ==
    /\ Running("distr_hit_stand")
    /\ LET f == Top
       IN  CASE f.pc = "start" ->
                  LET g == Demoted(f)
                  IN  Call([g EXCEPT !.pc = "got_hit"],
                           HitFrame(g.pt, g.aces, g.dt, card_distr),
                           card_distr)
             [] f.pc = "got_hit" ->
                  Call([f EXCEPT !.pc = "got_stand", !.x = ret.ptr],
                       StandFrame(f.pt, is_ace(f.dt), f.dt, TRUE, card_distr),
                       card_distr)
             [] f.pc = "got_stand" -> ReturnBetter(f.x, ret.ptr)

distr_hit_stand_double ==
    /\ Running("distr_hit_stand_double")
    /\ LET f == Top
       IN  CASE f.pc = "start" ->
                  LET g == Demoted(f)
                  IN  IF g.pt = 21
                      THEN Call([g EXCEPT !.pc = "ret"],
                                Frame("distr_blackjack", 0, 0, g.dt, FALSE,
                                      card_distr),
                                card_distr)
                      ELSE Call([g EXCEPT !.pc = "got_hit_stand"],
                                HitStandFrame(g.pt, g.aces, g.dt, card_distr),
                                card_distr)
             [] f.pc = "got_hit_stand" ->
                  Call([f EXCEPT !.pc = "got_double", !.x = ret.ptr],
                       Frame("distr_double", f.pt, f.aces, f.dt, FALSE,
                             card_distr),
                       card_distr)
             [] f.pc = "got_double" -> ReturnBetter(f.x, ret.ptr)
             [] f.pc = "ret" -> Return(ret.ptr)

\* p of distr_blackjack: the dealer's hidden card makes a blackjack.
BlackjackTieProbability(shoe, dealer_total) ==
    IF dealer_total = 10
    THEN card_probability(shoe, 1, 0)
    ELSE RAdd(RAdd(RAdd(card_probability(shoe, 10, 0),
                        card_probability(shoe, 11, 0)),
                   card_probability(shoe, 12, 0)),
              card_probability(shoe, 13, 0))

distr_blackjack ==
    /\ Running("distr_blackjack")
    /\ LET f == Top
       IN  IF f.dt < 10
           THEN Return(CONSTANT_BLACKJACK)
           ELSE LET h == get_state_hash(card_distr, 21, 1, f.dt, 5)
                    p == BlackjackTieProbability(card_distr, f.dt)
                    d == add(add(empty_distr, Deref(CONSTANT_TIE), p),
                             Deref(CONSTANT_BLACKJACK), RSub(One, p))
                IN  IF precomputed_distr(h)
                    THEN Return(CachePtr(h))
                    ELSE StoreReturn(h, d, d)

-----------------------------------------------------------------------------
(* The client program: a script of calls on one solver at a time.          *)

\* One call of the script.  op names the method; the other fields are its
\* arguments (those the method does not take are left at their defaults).
Op(op, shoe, pt, aces, dt, fc, rules, util) ==
    [op |-> op, shoe |-> shoe, pt |-> pt, aces |-> aces, dt |-> dt,
     fc |-> fc, rules |-> rules, util |-> util]

NoRules ==
    [HIT_SOFT_17 |-> FALSE, DEALER_PEEKS |-> FALSE,
     DOUBLE_AFTER_SPLIT |-> FALSE, HIT_AFTER_SPLIT_ACES |-> FALSE,
     BLACKJACK_WITH_SPLIT_ACES |-> FALSE, SPLIT_UNEVEN |-> FALSE,
     BLACKJACK_PAYOUT |-> Zero, SHOE_SIZE |-> 0]

Idle == stack = <<>> /\ script # <<>>

Current == Head(script)

\* The number of assignments to the cache since it was last empty, over
\* the keys in `keys`: one pair <<key, i>> per assignment.
Stores(keys) ==
    Cardinality(UNION {{<<k, i>> : i \in 1..assigned[k]} : k \in keys})

\* What the client keeps of a finished call: the call, the distribution or
\* the boolean it returned, the working shoe before and after, the caller's
\* vector after, the assignments made to the cache, and whether a draw
\* loop found the shoe without a card to draw.
Result(op, d, b, shoe_in) ==
    [op |-> op, d |-> d, b |-> b, shoe_in |-> shoe_in,
     shoe_out |-> card_distr, arg_out |-> caller_shoe,
     stored |-> Stores(DOMAIN assigned), starved |-> starved]

\* The utility functions of the clients: KellyBettor passes lambda x: x;
\* the strategist is given any function of the payout.
UtilityOf(name, w) ==
    CASE name = "identity" -> w
      [] name = "zero" -> Zero
      [] name = "gain" -> IF RGt(w, Zero) THEN One ELSE Zero

RuleMessages(rules) ==
    (IF rules.BLACKJACK_PAYOUT # <<3, 2>>
     THEN <<"blackjakc_payout_exception">> ELSE <<>>)
    \o (IF rules.SHOE_SIZE >= 25 THEN <<"shoe_size_exception">> ELSE <<>>)
    \o (IF ~rules.DEALER_PEEKS THEN <<"dealer_peeks_exception">> ELSE <<>>)

\* RewardDistribution(utility_function) in a process started under the
\* rule record of the call: the messages are printed and nothing is raised.
cinit ==
    /\ Idle
    /\ Current.op = "construct"
    /\ rule_variation' = Current.rules
    /\ utility' = [i \in Buckets |-> UtilityOf(Current.util, Payout(i))]
    /\ printed' = RuleMessages(Current.rules)
    /\ consts' = [name \in {"TIE", "WIN", "BLACKJACK", "LOSE"} |->
                     CASE name = "TIE" -> constant_distr(0)
                       [] name = "WIN" -> constant_distr(2)
                       [] name = "BLACKJACK" -> constant_distr(3)
                       [] name = "LOSE" -> constant_distr(-2)]
    /\ constructed' = TRUE
    /\ card_distr' = NoShoe
    /\ precomp_distr' = <<>>
    /\ assigned' = <<>>
    /\ starved' = FALSE
    /\ out' = Append(out, Result(Current, empty_distr, FALSE, card_distr))
    /\ script' = Tail(script)
    /\ ret' = NoRet
    /\ UNCHANGED <<caller_shoe, stack, probe>>

\* WrappedRewardDistribution.set_card_distribution: the solver copies the
\* caller's sequence into its own int[14].
set_card_distribution ==
    /\ Idle
    /\ constructed
    /\ Current.op = "set_card_distribution"
    /\ card_distr' = Current.shoe
    /\ caller_shoe' = Current.shoe
    /\ out' = Append(out, Result(Current, empty_distr, FALSE, card_distr))
    /\ script' = Tail(script)
    /\ UNCHANGED <<rule_variation, constructed, printed, utility, consts,
                   precomp_distr, stack, ret, assigned, starved, probe>>

\* A release that frees nothing and leaves the map as it is.
ReleaseNothing ==
    /\ Idle
    /\ constructed
    /\ Current.op = "free_mem"
    /\ out' = Append(out, Result(Current, empty_distr, FALSE, card_distr))
    /\ script' = Tail(script)
    /\ ret' = NoRet
    /\ UNCHANGED <<rule_variation, constructed, printed, utility, consts,
                   card_distr, caller_shoe, stack, probe, precomp_distr,
                   assigned, starved>>

\* OptimalStrategist.free_mem -> RewardDistribution.free_mem
free_mem ==
    /\ Idle
    /\ constructed
    /\ Current.op = "free_mem"
    /\ precomp_distr' = <<>>
    /\ assigned' = <<>>
    /\ starved' = FALSE
    /\ out' = Append(out, Result(Current, empty_distr, FALSE, card_distr))
    /\ script' = Tail(script)
    /\ ret' = NoRet
    /\ UNCHANGED <<rule_variation, constructed, printed, utility, consts,
                   card_distr, caller_shoe, stack, probe>>

\* RewardDistribution.__dealloc__: the cache is released and the four
\* constants are freed; the solver is gone.
dealloc ==
    /\ Idle
    /\ constructed
    /\ Current.op = "dealloc"
    /\ precomp_distr' = <<>>
    /\ assigned' = <<>>
    /\ starved' = FALSE
    /\ consts' = [name \in DOMAIN consts |-> empty_distr]
    /\ constructed' = FALSE
    /\ out' = Append(out, Result(Current, empty_distr, FALSE, card_distr))
    /\ script' = Tail(script)
    /\ ret' = NoRet
    /\ UNCHANGED <<rule_variation, printed, utility, card_distr, caller_shoe,
                   stack, probe>>

WrappedEntries ==
    {"distr_hit", "distr_stand", "distr_double", "distr_split_general",
     "distr_split_tens", "distr_split_aces", "distr_split",
     "distr_hit_stand", "distr_hit_stand_double", "distr_blackjack"}

\* The client's activation starts: the stack holds the solver's activation
\* above the client's own, and the solver works on `shoe`.
Enter(client, callee, shoe, arg) ==
    /\ stack' = <<callee, client>>
    /\ card_distr' = shoe
    /\ caller_shoe' = arg
    /\ UNCHANGED <<rule_variation, constructed, printed, utility, consts,
                   precomp_distr, ret, script, out, assigned, starved, probe>>

\* The client's activation ends with the result r.
Leave(r) ==
    /\ stack' = <<>>
    /\ out' = Append(out, r)
    /\ script' = Tail(script)
    /\ ret' = NoRet
    /\ UNCHANGED <<rule_variation, constructed, printed, utility, consts,
                   card_distr, precomp_distr, caller_shoe, assigned, starved,
                   probe>>

\* WrappedRewardDistribution.distr_*: the call is passed on and the array
\* the returned pointer points to is handed to the caller. distr_blackjack
\* has no wrapper: its caller is Cython code that holds the solver.
wrapped ==
    \/ /\ Idle
       /\ constructed
       /\ Current.op \in WrappedEntries
       /\ Enter([Frame("wrapped", 0, 0, 0, FALSE, card_distr)
                    EXCEPT !.pc = "got"],
                Frame(Current.op, Current.pt, Current.aces, Current.dt,
                      Current.fc, card_distr),
                card_distr, caller_shoe)
    \/ /\ Running("wrapped")
       /\ Leave(Result(Current, Deref(ret.ptr), FALSE, Top.entry))

\* The two distributions a strategist query compares, as activations.
FirstOf(op, shoe) ==
    CASE op.op = "should_split" ->
           Frame("distr_split", op.pt, op.aces, op.dt, FALSE, shoe)
      [] op.op = "should_double" ->
           Frame("distr_double", op.pt, op.aces, op.dt, FALSE, shoe)
      [] op.op = "should_hit" -> HitFrame(op.pt, op.aces, op.dt, shoe)

SecondOf(op, shoe) ==
    CASE op.op = "should_split" ->
           HitStandDoubleFrame(op.pt, op.aces, op.dt, shoe)
      [] op.op = "should_double" ->
           HitStandFrame(op.pt, op.aces, op.dt, shoe)
      [] op.op = "should_hit" ->
           StandFrame(op.pt, IF op.dt = 11 THEN 1 ELSE 0, op.dt, TRUE, shoe)

\* value(first) >= value(second)
AtLeast(first, second) ==
    ~RLt(distribution_value(first), distribution_value(second))

\* rd.distribution_value(first) > rd.distribution_value(second)
Exceeds(first, second) ==
    RGt(distribution_value(first), distribution_value(second))

\* OptimalStrategist.should_split / should_double / should_hit: each copies
\* the first distribution into a local array before it asks for the second.
Should(name) ==
    \/ /\ Idle
       /\ constructed
       /\ Current.op = name
       /\ Enter([Frame(name, Current.pt, Current.aces, Current.dt, FALSE,
                       Current.shoe) EXCEPT !.pc = "got_first"],
                FirstOf(Current, Current.shoe), Current.shoe, Current.shoe)
    \/ /\ Running(name)
       /\ Top.pc = "got_first"
       /\ Call([Top EXCEPT !.pc = "got_second", !.y = Deref(ret.ptr)],
               SecondOf(Current, card_distr), card_distr)
    \/ /\ Running(name)
       /\ Top.pc = "got_second"
       /\ Leave(Result(Current, empty_distr,
                       Exceeds(Top.y, Deref(ret.ptr)), Top.entry))

should_split == Should("should_split")

should_double == Should("should_double")

should_hit == Should("should_hit")

-----------------------------------------------------------------------------
(* KellyBettor.                                                            *)

\* A step of get_probability: it works on the caller's shoe itself.
ProbabilityStep(f2, shoe) ==
    /\ stack' = <<f2>> \o Rest
    /\ caller_shoe' = shoe
    /\ UNCHANGED <<rule_variation, constructed, printed, utility, consts,
                   card_distr, precomp_distr, ret, script, out, assigned,
                   starved, probe>>

ProbabilityReturn(p, shoe) ==
    /\ stack' = Rest
    /\ caller_shoe' = shoe
    /\ ret' = [Returned(Top, NullPtr, p, FALSE, <<>>) EXCEPT !.exit = shoe]
    /\ UNCHANGED <<rule_variation, constructed, printed, utility, consts,
                   card_distr, precomp_distr, script, out, assigned, starved,
                   probe>>

\* get_probability(distr, card1, card2, card3): the frame holds the three
\* cards in pt, aces, dt, cards_left in n, and distr as it was passed in.
get_probability ==
    /\ Running("get_probability")
    /\ LET f == Top
           distr == caller_shoe
       IN  CASE f.pc = "start" ->
                  LET cards_left == CardsLeft(distr)
                  IN  IF cards_left < 3
                      THEN ProbabilityReturn(Zero, distr)
                      ELSE ProbabilityStep(
                               [f EXCEPT !.pc = "second", !.n = cards_left,
                                         !.p = RDiv(distr[f.pt], cards_left)],
                               [distr EXCEPT ![f.pt] = @ - 1])
             [] f.pc = "second" ->
                  ProbabilityStep(
                      [f EXCEPT !.pc = "third",
                                !.p = RMul(f.p, RDiv(distr[f.aces], f.n - 1))],
                      [distr EXCEPT ![f.aces] = @ - 1])
             [] f.pc = "third" ->
                  ProbabilityReturn(
                      RMul(f.p, RDiv(distr[f.dt], f.n - 2)),
                      [[distr EXCEPT ![f.pt] = @ + 1]
                          EXCEPT ![f.aces] = @ + 1])

kelly_get_value(card) ==
    IF card = 1 THEN 11
    ELSE IF card < 10 THEN card
    ELSE 10

\* get_player: <<player_total, player_aces>> of the two cards dealt.
get_player(player_first, player_second) ==
    LET total == kelly_get_value(player_first) + kelly_get_value(player_second)
        aces == kelly_is_ace(player_first) + kelly_is_ace(player_second)
    IN  IF total > 21 THEN <<total - 10, aces - 1>> ELSE <<total, aces>>

remove_cards(distr, card1, card2, card3) ==
    [[[distr EXCEPT ![card1] = @ - 1] EXCEPT ![card2] = @ - 1]
        EXCEPT ![card3] = @ - 1]

get_dealer_blackjack_probability(distr, dealer_total) ==
    LET cards_left == CardsLeft(distr)
    IN  IF dealer_total = 10
        THEN RDiv(distr[1], cards_left)
        ELSE RDiv(distr[10] + distr[11] + distr[12] + distr[13], cards_left)

matching_cards(card1, card2) ==
    IF rule_variation.SPLIT_UNEVEN
    THEN kelly_get_value(card1) = kelly_get_value(card2)
    ELSE card1 = card2

\* The next turn of the three nested loops over 1..13.
NextDeal(f) ==
    IF f.dt < 13 THEN [f EXCEPT !.dt = f.dt + 1]
    ELSE IF f.aces < 13 THEN [f EXCEPT !.dt = 1, !.aces = f.aces + 1]
    ELSE [f EXCEPT !.dt = 1, !.aces = 1, !.pt = f.pt + 1]

\* The aggregate with the dealer's blackjack weighed on the shoe that is
\* left after the deal.
AggregateAfterRemoval(f, current_distr) ==
    LET dealer_total == kelly_get_value(f.dt)
        player_total == get_player(f.pt, f.aces)[1]
        q == IF dealer_total < 10 THEN Zero
             ELSE get_dealer_blackjack_probability(
                      remove_cards(caller_shoe, f.pt, f.aces, f.dt),
                      dealer_total)
    IN  add(add(f.distr, current_distr, RMul(f.p, RSub(One, q))),
            Deref(IF player_total = 21 THEN CONSTANT_TIE ELSE CONSTANT_LOSE),
            RMul(f.p, q))

\* add(distr, current_distr, p*(1-q)); add(distr, TIE or LOSE, p*q)
Aggregate(f, current_distr) ==
    LET dealer_total == kelly_get_value(f.dt)
        player_total == get_player(f.pt, f.aces)[1]
        q == IF dealer_total < 10 THEN Zero
             ELSE get_dealer_blackjack_probability(caller_shoe, dealer_total)
    IN  add(add(f.distr, current_distr, RMul(f.p, RSub(One, q))),
            Deref(IF player_total = 21 THEN CONSTANT_TIE ELSE CONSTANT_LOSE),
            RMul(f.p, q))

\* KellyBettor.get_distr(card_distr): the frame holds player_first,
\* player_second, dealer_shown in pt, aces, dt, the aggregate in distr and
\* current_distr in y.
get_distr ==
    \/ /\ Idle
       /\ constructed
       /\ Current.op = "get_distr"
       /\ stack' = <<[Frame("get_distr", 1, 1, 1, FALSE, card_distr)
                         EXCEPT !.pc = "deal", !.distr = empty_distr]>>
       /\ caller_shoe' = Current.shoe
       /\ UNCHANGED <<rule_variation, constructed, printed, utility, consts,
                      card_distr, precomp_distr, ret, script, out, assigned,
                      starved, probe>>
    \/ /\ Running("get_distr")
       /\ LET f == Top
              player == get_player(f.pt, f.aces)
              dealer_total == kelly_get_value(f.dt)
          IN  CASE f.pc = "deal" /\ f.pt <= 13 ->
                     Call([f EXCEPT !.pc = "got_p"],
                          Frame("get_probability", f.pt, f.aces, f.dt, FALSE,
                                caller_shoe),
                          card_distr)
                [] f.pc = "deal" /\ f.pt > 13 ->
                     \* rd.free_mem(); return distr
                     /\ stack' = <<>>
                     /\ precomp_distr' = <<>>
                     /\ assigned' = <<>>
                     /\ starved' = FALSE
                     /\ out' = Append(out, Result(Current, f.distr, FALSE,
                                                  f.entry))
                     /\ script' = Tail(script)
                     /\ ret' = NoRet
                     /\ UNCHANGED <<rule_variation, constructed, printed,
                                    utility, consts, card_distr, caller_shoe,
                                    probe>>
                [] f.pc = "got_p" ->
                     IF ret.val = Zero
                     THEN Goto([NextDeal(f) EXCEPT !.pc = "deal"])
                     ELSE LET shoe == remove_cards(caller_shoe, f.pt, f.aces,
                                                   f.dt)
                          IN  Call([f EXCEPT !.pc = "got_hit_stand_double",
                                             !.p = ret.val],
                                   HitStandDoubleFrame(player[1], player[2],
                                                       dealer_total, shoe),
                                   shoe)
                [] f.pc = "got_hit_stand_double" ->
                     IF matching_cards(f.pt, f.aces)
                     THEN Call([f EXCEPT !.pc = "got_split",
                                         !.y = Deref(ret.ptr)],
                               Frame("distr_split", player[1], player[2],
                                     dealer_total, FALSE, card_distr),
                               card_distr)
                     ELSE Goto([NextDeal(f) EXCEPT
                                   !.pc = "deal",
                                   !.distr = Aggregate(f, Deref(ret.ptr))])
                [] f.pc = "got_split" ->
                     LET split_distr == Deref(ret.ptr)
                         current_distr ==
                             IF RGt(distribution_value(split_distr),
                                    distribution_value(f.y))
                             THEN split_distr ELSE f.y
                     IN  Goto([NextDeal(f) EXCEPT
                                  !.pc = "deal",
                                  !.distr = Aggregate(f, current_distr)])

-----------------------------------------------------------------------------
(* The scenarios: the rule records, the shoes and the scripts the model    *)
(* runs.                                                                   *)

Rules(h17, das, hasa, bjsa, uneven) ==
    [HIT_SOFT_17 |-> h17, DEALER_PEEKS |-> TRUE,
     DOUBLE_AFTER_SPLIT |-> das, HIT_AFTER_SPLIT_ACES |-> hasa,
     BLACKJACK_WITH_SPLIT_ACES |-> bjsa, SPLIT_UNEVEN |-> uneven,
     BLACKJACK_PAYOUT |-> <<3, 2>>, SHOE_SIZE |-> 8]

\* The ranks the shoes of the model hold: the ace, a small card, a ten and
\* a face card.
ShoeRanks == {1, 5, 10, 13}

\* The shoes of at most n cards.
ShoesUpTo(n) ==
    {[i \in Ranks |-> IF i \in ShoeRanks THEN s[i] ELSE 0] :
        s \in {t \in [ShoeRanks -> 0..n] : t[1] + t[5] + t[10] + t[13] <= n}}

\* Those without a face card.
PlainShoesUpTo(n) == {s \in ShoesUpTo(n) : s[13] = 0}

Construct(rules, util) == Op("construct", NoShoe, 0, 0, 0, FALSE, rules, util)

SetShoe(shoe) ==
    Op("set_card_distribution", shoe, 0, 0, 0, FALSE, NoRules, "")

Entry(fn, pt, aces, dt, fc) == Op(fn, NoShoe, pt, aces, dt, fc, NoRules, "")

Query(fn, pt, aces, dt, shoe) == Op(fn, shoe, pt, aces, dt, FALSE, NoRules, "")

FreeMem == Op("free_mem", NoShoe, 0, 0, 0, FALSE, NoRules, "")

Dealloc == Op("dealloc", NoShoe, 0, 0, 0, FALSE, NoRules, "")

GetDistr(shoe) == Op("get_distr", shoe, 0, 0, 0, FALSE, NoRules, "")

\* The hands <<player_total, player_aces>> and the dealer's up-card values
\* the entry points are called with.
Hands == {<<12, 0>>, <<20, 0>>, <<18, 1>>, <<21, 1>>}

Dealers == {6, 10, 11}

\* The rule records and utility functions the solver is built with.
\* The calls that do not split.
DealerCalls ==
    {Entry("distr_hit_stand_double", h[1], h[2], dt, FALSE) :
        h \in Hands, dt \in {6, 10}}
    \cup {Entry("distr_stand", 18, is_ace(dt), dt, fc) :
            dt \in Dealers, fc \in BOOLEAN}

PlainCalls ==
    DealerCalls
    \cup {Entry(c[1], h[1], h[2], c[2], FALSE) :
            c \in {<<"distr_hit", 10>>, <<"distr_double", 6>>,
                   <<"distr_hit_stand", 10>>},
            h \in Hands}
    \cup {Entry("distr_blackjack", 0, 0, dt, FALSE) : dt \in Dealers}
    \cup {Entry("distr_hit", 22, 1, 6, FALSE)}

\* The rule records and utility functions the solver is built with, and
\* the calls made under each.
PlainSetups ==
    {<<Rules(TRUE, FALSE, FALSE, FALSE, FALSE), "identity", DealerCalls,
       ShoesUpTo(MaxCards)>>,
     <<Rules(TRUE, FALSE, FALSE, FALSE, FALSE), "identity",
       PlainCalls \ DealerCalls, PlainShoesUpTo(MaxCards)>>,
     <<Rules(FALSE, FALSE, FALSE, FALSE, FALSE), "gain", DealerCalls,
       PlainShoesUpTo(MaxCards)>>}

\* One solver, one shoe, the same call twice.
TwiceScripts ==
    UNION {{<<Construct(su[1], su[2]), SetShoe(shoe), call, call>> :
               shoe \in su[4], call \in su[3]} :
           su \in PlainSetups}
    \cup {<<Construct(Rules(TRUE, TRUE, TRUE, FALSE, FALSE), "identity"),
            SetShoe(shoe), Entry("distr_hit_stand_double", 12, 0, 6, FALSE),
            FreeMem, Entry("distr_hit_stand_double", 12, 0, 6, FALSE),
            Dealloc>> :
              shoe \in PlainShoesUpTo(MaxCards - 1)}

\* The calls that split; distr_split_general takes the card of the pair.
\* Only a pair of aces reads the two rules about split aces.
SplitCalls ==
    {<<Entry("distr_split_general", 9, 0, 8, FALSE), FALSE, FALSE>>,
     <<Entry("distr_split", 18, 0, 6, FALSE), FALSE, FALSE>>,
     <<Entry("distr_split_tens", 0, 0, 11, FALSE), FALSE, FALSE>>,
     <<Entry("distr_split", 20, 0, 6, FALSE), FALSE, FALSE>>}
    \cup {<<Entry("distr_split_aces", 12, 1, 6, FALSE), hasa, bjsa>> :
            hasa \in BOOLEAN, bjsa \in BOOLEAN}
    \cup {<<Entry("distr_split", 12, 1, 6, FALSE), FALSE, FALSE>>}

\* The same split under DOUBLE_AFTER_SPLIT and, in a second process with
\* all other rules equal, without it.
SplitScripts ==
    UNION {{<<Construct(Rules(TRUE, TRUE, c[2], c[3], FALSE), "identity"),
              SetShoe(shoe), c[1],
              Construct(Rules(TRUE, FALSE, c[2], c[3], FALSE), "identity"),
              SetShoe(shoe), c[1]>> :
               shoe \in IF c[1].op = "distr_split"
                        THEN PlainShoesUpTo(MaxCards)
                        ELSE ShoesUpTo(MaxCards)} :
           c \in SplitCalls}

\* The strategist's queries, with a release of the cache in between.
QueryScripts ==
    {<<Construct(Rules(TRUE, TRUE, TRUE, FALSE, FALSE), c[1]),
       Query(fn, c[2], c[3], 10, shoe), FreeMem,
       Query(fn, c[2], c[3], 10, shoe)>> :
        c \in {<<"identity", 20, 0>>, <<"zero", 12, 1>>},
        fn \in {"should_split", "should_double", "should_hit"},
        shoe \in PlainShoesUpTo(MaxCards)}

\* The two wrapped calls a test makes to see what a query compares.
ComparedCalls(fn, pt, aces, dt) ==
    CASE fn = "should_split" ->
           <<Entry("distr_split", pt, aces, dt, FALSE),
             Entry("distr_hit_stand_double", pt, aces, dt, FALSE)>>
      [] fn = "should_double" ->
           <<Entry("distr_double", pt, aces, dt, FALSE),
             Entry("distr_hit_stand", pt, aces, dt, FALSE)>>
      [] fn = "should_hit" ->
           <<Entry("distr_hit", pt, aces, dt, FALSE),
             Entry("distr_stand", pt, IF dt = 11 THEN 1 ELSE 0, dt, TRUE)>>

\* The two distributions from the wrapped solver, then the query on a
\* strategist whose solver is left with another shoe.
CompareScripts ==
    {<<Construct(Rules(TRUE, TRUE, TRUE, FALSE, FALSE), c[1]),
       SetShoe(shoe),
       ComparedCalls(fn, c[2], c[3], c[4])[1],
       ComparedCalls(fn, c[2], c[3], c[4])[2],
       SetShoe(NoShoe),
       Query(fn, c[2], c[3], c[4], shoe)>> :
        c \in {<<"identity", 20, 0, 11>>, <<"zero", 12, 1, 10>>,
               <<"gain", 12, 0, 6>>},
        fn \in {"should_split", "should_double", "should_hit"},
        shoe \in PlainShoesUpTo(MaxCards)}

\* The shoes the bettor is asked about: one too small to deal from, one
\* that the three cards dealt leave empty, one of two aces and two tens, and
\* the one of one ace and MaxCards tens.
KellyShoes ==
    {[i \in Ranks |-> IF i \in {1, 10} THEN 1 ELSE 0],
     [i \in Ranks |-> IF i = 1 THEN 1 ELSE IF i = 10 THEN 2 ELSE 0],
     [i \in Ranks |-> IF i \in {1, 10} THEN 2 ELSE 0]}
    \cup {s \in ShoesUpTo(MaxCards + 1) :
            /\ s[5] = 0 /\ s[13] = 0 /\ s[1] + s[10] = MaxCards + 1
            /\ s[1] = 1}

\* The bettor is asked once per round: the shoe of three cards is asked twice.
KellyScripts ==
    {<<Construct(Rules(TRUE, TRUE, TRUE, FALSE, uneven), "identity"),
       GetDistr(shoe)>> \o (IF CardsLeft(shoe) = 3 THEN <<GetDistr(shoe)>>
                                                  ELSE <<>>) :
        uneven \in {FALSE}, shoe \in KellyShoes}

\* The rule records outside the supported envelope.
UnsupportedRules ==
    {[Rules(TRUE, TRUE, TRUE, FALSE, FALSE) EXCEPT !.BLACKJACK_PAYOUT = <<6, 5>>],
     [Rules(TRUE, TRUE, TRUE, FALSE, FALSE) EXCEPT !.SHOE_SIZE = 25],
     [Rules(TRUE, TRUE, TRUE, FALSE, FALSE) EXCEPT !.DEALER_PEEKS = FALSE]}

UnsupportedScripts ==
    {<<Construct(rules, "identity"), SetShoe(shoe),
       Entry("distr_blackjack", 0, 0, 6, FALSE)>> :
        rules \in UnsupportedRules, shoe \in ShoesUpTo(1)}

Scripts ==
    TwiceScripts \cup SplitScripts \cup QueryScripts \cup KellyScripts
    \cup UnsupportedScripts \cup CompareScripts

-----------------------------------------------------------------------------
(* The specification.                                                      *)

\* The state before the client program starts: no solver yet.
InitWith(scripts) ==
    /\ script \in scripts
    /\ rule_variation = NoRules
    /\ constructed = FALSE
    /\ printed = <<>>
    /\ utility = [i \in Buckets |-> Zero]
    /\ consts = [name \in {"TIE", "WIN", "BLACKJACK", "LOSE"} |-> empty_distr]
    /\ card_distr = NoShoe
    /\ precomp_distr = <<>>
    /\ caller_shoe = NoShoe
    /\ stack = <<>>
    /\ ret = NoRet
    /\ out = <<>>
    /\ assigned = <<>>
    /\ starved = FALSE
    /\ probe = <<>>

Next ==
    \/ cinit
    \/ set_card_distribution
    \/ free_mem
    \/ dealloc
    \/ wrapped
    \/ should_split
    \/ should_double
    \/ should_hit
    \/ get_distr
    \/ get_probability
    \/ distr_hit
    \/ distr_stand
    \/ distr_double
    \/ distr_split_general
    \/ distr_split_tens
    \/ distr_split_aces
    \/ distr_split
    \/ distr_hit_stand
    \/ distr_hit_stand_double
    \/ distr_blackjack

Init == InitWith(Scripts)

Spec == Init /\ [][Next]_vars

-----------------------------------------------------------------------------
(* The program run to its end. It runs on one thread from the first call   *)
(* of its script to the last and nothing outside stops it: a step that can *)
(* be taken is taken.                                                      *)

\* The shoes of a client that makes every kind of call in turn.
SessionShoes == PlainShoesUpTo(MaxCards - 1)

SessionScripts ==
    {<<Construct(Rules(TRUE, TRUE, TRUE, FALSE, FALSE), "identity"),
       SetShoe(shoe),
       Entry("distr_stand", 18, 0, 6, TRUE),
       Entry("distr_hit_stand_double", 12, 0, 6, FALSE),
       Entry("distr_hit", 21, 1, 10, FALSE),
       Entry("distr_hit_stand_double", 21, 1, 10, FALSE),
       Entry("distr_split", 18, 0, 6, FALSE),
       Entry("distr_split", 12, 1, 6, FALSE),
       Entry("distr_split", 20, 0, 6, FALSE),
       FreeMem,
       Query("should_split", 20, 0, 10, shoe),
       Query("should_double", 18, 1, 10, shoe),
       Query("should_hit", 12, 0, 11, shoe)>> : shoe \in SessionShoes}
    \cup {<<Construct(Rules(TRUE, TRUE, TRUE, FALSE, FALSE), "identity"),
            GetDistr([i \in Ranks |-> IF i \in {1, 10} THEN 1 ELSE 0]),
            Dealloc>>}

InitSession == InitWith(SessionScripts)

SpecSession == InitSession /\ [][Next]_vars /\ WF_vars(Next)

-----------------------------------------------------------------------------
(* Calls outside the preconditions: a count below 0 in the shoe, a player  *)
(* total above 31, a dealer total outside 2..11, a ten split as a general  *)
(* card.                                                                   *)

\* Shoes with a count below 0; on them the calls of the model never divide
\* a count other than 0 by a total of 0 (DivisionsDefined).
NegativeShoes ==
    {[i \in Ranks |-> IF i = 1 THEN -1 ELSE IF i = 5 THEN 3 ELSE 0],
     [i \in Ranks |-> IF i = 1 THEN -1 ELSE IF i = 5 THEN 2
                      ELSE IF i = 10 THEN 1 ELSE 0]}

\* Hands and dealer totals outside the preconditions.
InvalidHands == {<<32, 0, 6>>, <<32, 1, 6>>, <<12, 0, 12>>, <<18, 0, 1>>}

InvalidScripts ==
    {<<Construct(Rules(TRUE, TRUE, TRUE, FALSE, FALSE), "identity"),
       SetShoe(shoe), Entry(fn, h[1], h[2], h[3], TRUE),
       Query("should_hit", h[1], h[2], h[3], shoe)>> :
        shoe \in ShoesUpTo(MaxCards - 1), h \in InvalidHands,
        fn \in {"distr_hit", "distr_stand", "distr_hit_stand"}}
    \cup {<<Construct(Rules(TRUE, TRUE, TRUE, FALSE, FALSE), "identity"),
            SetShoe(shoe), Entry("distr_stand", 18, 0, 10, TRUE),
            Query("should_hit", 20, 0, 10, shoe)>> :
            shoe \in NegativeShoes}
    \cup {<<Construct(Rules(TRUE, FALSE, TRUE, FALSE, FALSE), "identity"),
            SetShoe(shoe), Entry("distr_split_general", 10, 0, 6, FALSE),
            Entry("distr_split_tens", 0, 0, 6, FALSE),
            Construct(Rules(TRUE, FALSE, TRUE, FALSE, FALSE), "identity"),
            SetShoe(shoe), Entry("distr_split_tens", 0, 0, 6, FALSE)>> :
            shoe \in {s \in PlainShoesUpTo(MaxCards - 1) : s[1] >= 1}}

InitInvalid == InitWith(InvalidScripts)

NextInvalid ==
    \/ cinit
    \/ set_card_distribution
    \/ wrapped
    \/ should_hit
    \/ distr_hit
    \/ distr_stand
    \/ distr_hit_stand
    \/ distr_split_general
    \/ distr_split_tens

SpecInvalid == InitInvalid /\ [][NextInvalid]_vars

-----------------------------------------------------------------------------
(* The hasher on its own: a test sets the shoe of a wrapped solver and     *)
(* asks for keys.                                                          *)

\* The counts and totals the test uses, up to the end of the two-digit
\* range.
HashCounts == {1, 99}

HashTotals == {0, 99}

HashAces == {0, 2}

HashModes == 0..5

\* set_card_distribution, before any key is asked for, with a sequence that
\* has one more rank than the shoe, above the ranks the shoe holds; the
\* shoes of the test have at most MaxTouched counts above 0.
hash_set_card_distribution ==
    /\ Idle = FALSE
    /\ stack = <<>>
    /\ constructed
    /\ probe = <<>>
    /\ \E i \in Ranks : \E v \in HashCounts :
          /\ \A j \in i..13 : card_distr[j] = 0
          /\ Cardinality({j \in Ranks : card_distr[j] # 0}) < MaxTouched
          /\ card_distr' = [card_distr EXCEPT ![i] = v]
          /\ caller_shoe' = [card_distr EXCEPT ![i] = v]
    /\ probe' = <<>>
    /\ UNCHANGED <<rule_variation, constructed, printed, utility, consts,
                   precomp_distr, stack, ret, script, out, assigned, starved>>

\* WrappedRewardDistribution.get_state_hash: the arguments, the shoe and
\* the key returned are kept in probe.
wrapped_get_state_hash ==
    /\ Idle = FALSE
    /\ stack = <<>>
    /\ constructed
    /\ probe = <<>>
    /\ \E pt \in HashTotals : \E aces \in HashAces :
       \E dt \in HashTotals : \E mode \in HashModes :
          probe' = <<[player_total |-> pt, aces |-> aces, dealer_total |-> dt,
                      mode |-> mode, shoe |-> card_distr,
                      key |-> get_state_hash(card_distr, pt, aces, dt, mode)]>>
    /\ UNCHANGED <<rule_variation, constructed, printed, utility, consts,
                   card_distr, precomp_distr, caller_shoe, stack, ret, script,
                   out, assigned, starved>>

InitHash ==
    InitWith({<<Construct(Rules(TRUE, TRUE, TRUE, FALSE, FALSE), "identity")>>})

NextHash ==
    \/ cinit
    \/ hash_set_card_distribution
    \/ wrapped_get_state_hash

SpecHash == InitHash /\ [][NextHash]_vars

-----------------------------------------------------------------------------
(* The release through the test wrapper. WrappedRewardDistribution.free_mem *)
(* consists of the call self.free_mem(): it calls itself and reaches no    *)
(* other statement. The recursion has no end: the process overflows its    *)
(* stack, or loops when the compiler makes the call a jump. The model      *)
(* follows it to MaxDepth activations; past them nothing of the program is *)
(* observable any more.                                                    *)

\* The number of activations of the wrapper's free_mem the model follows.
MaxDepth == 3

\* cpdef void free_mem(self): self.free_mem()
wrapped_free_mem ==
    /\ \/ /\ Idle
          /\ constructed
          /\ Current.op = "wrapped_free_mem"
       \/ /\ Running("wrapped_free_mem")
          /\ Len(stack) < MaxDepth
    /\ stack' = <<Frame("wrapped_free_mem", 0, 0, 0, FALSE, card_distr)>>
                \o stack
    /\ UNCHANGED <<rule_variation, constructed, printed, utility, consts,
                   card_distr, precomp_distr, caller_shoe, ret, script, out,
                   assigned, starved, probe>>

\* A test that fills the cache and releases it through the wrapper.
ReleaseScripts ==
    {<<Construct(Rules(TRUE, TRUE, TRUE, FALSE, FALSE), "identity"),
       SetShoe(shoe),
       Entry("distr_hit_stand", 12, 0, 6, FALSE),
       Op("wrapped_free_mem", NoShoe, 0, 0, 0, FALSE, NoRules, ""),
       Entry("distr_hit_stand", 12, 0, 6, FALSE)>> :
        shoe \in PlainShoesUpTo(MaxCards - 1)}

InitRelease == InitWith(ReleaseScripts)

NextRelease ==
    \/ cinit
    \/ set_card_distribution
    \/ wrapped
    \/ distr_hit
    \/ distr_stand
    \/ distr_hit_stand
    \/ wrapped_free_mem

\* The test runs on one thread and nothing outside stops it: a step that
\* can be taken is taken.
SpecRelease == InitRelease /\ [][NextRelease]_vars /\ WF_vars(NextRelease)

-----------------------------------------------------------------------------
(* double_variable run loop by loop on an array of its own: probe holds    *)
(* the array distr, the local tmp, the loop variable i of the second loop  *)
(* (-1 before the first loop, 17 after the second, 18 after the third) and *)
(* the array as it was passed in.                                          *)

\* The largest number of buckets of an input that differ from zero.
MaxSupport == 2

\* The arrays passed in: a quarter or a half in up to MaxSupport of the
\* buckets 0, 4, 8, 11, 16, zero elsewhere.
ConvolveInputs ==
    {[k \in Buckets |-> IF k \in DOMAIN v THEN v[k] ELSE Zero] :
        v \in UNION {[S -> {<<1, 4>>, <<1, 2>>}] :
                        S \in {T \in SUBSET {0, 4, 8, 11, 16} :
                                  Cardinality(T) \in 1..MaxSupport}}}

\* A product that falls outside buckets 0..16 goes to the nearest bucket.
RowClamped(tmp, distr, i) ==
    [k \in Buckets |->
        RAdd(tmp[k],
             RSum([j \in Buckets |->
                      IF \/ i + j - 8 = k
                         \/ k = 0 /\ i + j < 8
                         \/ k = 16 /\ i + j >= 25
                      THEN RMul(distr[i], distr[j]) ELSE Zero], 0, 16))]

\* for j in range(17): if i + j < 25 and i+j >= 8:
\*     tmp[i + j - 8] += distr[i] * distr[j]
RowAdded(tmp, distr, i) ==
    [k \in Buckets |->
        RAdd(tmp[k],
             RSum([j \in Buckets |->
                      IF i + j < 25 /\ i + j >= 8 /\ i + j - 8 = k
                      THEN RMul(distr[i], distr[j]) ELSE Zero], 0, 16))]

\* for i in range(17): tmp[i] = 0.0
convolve_clear ==
    /\ probe # <<>>
    /\ probe[1].i = -1
    /\ probe' = <<[probe[1] EXCEPT !.tmp = [k \in Buckets |-> Zero],
                                   !.i = 0]>>
    /\ UNCHANGED <<rule_variation, constructed, printed, utility, consts,
                   card_distr, precomp_distr, caller_shoe, stack, ret, script,
                   out, assigned, starved>>

\* One turn of "for i in range(17)" of the second loop.
convolve_row ==
    /\ probe # <<>>
    /\ probe[1].i \in 0..16
    /\ probe' = <<[probe[1] EXCEPT
                      !.tmp = RowAdded(probe[1].tmp, probe[1].distr,
                                       probe[1].i),
                      !.i = @ + 1]>>
    /\ UNCHANGED <<rule_variation, constructed, printed, utility, consts,
                   card_distr, precomp_distr, caller_shoe, stack, ret, script,
                   out, assigned, starved>>

\* for i in range(17): distr[i] = tmp[i]
convolve_copy ==
    /\ probe # <<>>
    /\ probe[1].i = 17
    /\ probe' = <<[probe[1] EXCEPT !.distr = probe[1].tmp, !.i = 18]>>
    /\ UNCHANGED <<rule_variation, constructed, printed, utility, consts,
                   card_distr, precomp_distr, caller_shoe, stack, ret, script,
                   out, assigned, starved>>

InitConvolve ==
    /\ script = <<>>
    /\ rule_variation = NoRules
    /\ constructed = FALSE
    /\ printed = <<>>
    /\ utility = [i \in Buckets |-> Zero]
    /\ consts = [name \in {"TIE", "WIN", "BLACKJACK", "LOSE"} |-> empty_distr]
    /\ card_distr = NoShoe
    /\ precomp_distr = <<>>
    /\ caller_shoe = NoShoe
    /\ stack = <<>>
    /\ ret = NoRet
    /\ out = <<>>
    /\ assigned = <<>>
    /\ starved = FALSE
    /\ probe \in {<<[distr |-> d, tmp |-> <<>>, i |-> -1, input |-> d]>> :
                     d \in ConvolveInputs}

NextConvolve ==
    \/ convolve_clear
    \/ convolve_row
    \/ convolve_copy

SpecConvolve == InitConvolve /\ [][NextConvolve]_vars

-----------------------------------------------------------------------------
(* The properties.                                                         *)

SolverEntries == WrappedEntries

Queries == {"should_split", "should_double", "should_hit"}

\* The results of the calls completed so far.
Done == {i \in 1..Len(out) : out[i].op.op \in SolverEntries \cup Queries
                                               \cup {"get_distr"}}

\* C1. Shoe conservation: every activation of the solver, and every
\* get_probability, returns with the shoe it works on equal to what it was
\* at entry; when a call of an entry point or of a query is over the
\* solver's working shoe is the one the call started on, and after every
\* call the caller's vector is the one that was passed in.
ShoeConservation ==
    /\ ret.fn # "none" => ret.exit = ret.entry
    /\ \A i \in Done :
          /\ out[i].op.op # "get_distr" => out[i].shoe_out = out[i].shoe_in
          /\ out[i].op.op \in Queries \cup {"get_distr"}
                => out[i].arg_out = out[i].op.shoe

\* A dealer's draw loop that drew from a shoe with cards has returned.
ShoeConservationWitness ==
    /\ ret.fn = "distr_stand"
    /\ ret.computed
    /\ CardsLeft(ret.entry) >= 2
    /\ Mass(Deref(ret.ptr)) = One
    /\ ret.exit = ret.entry

\* C2. Non-negative counts: at every point of every recursion of the solver
\* and of every get_probability, each of the 13 counts of the solver's
\* working shoe and of the caller's vector is at least 0.
NonNegativeCounts ==
    \A i \in Ranks : card_distr[i] >= 0 /\ caller_shoe[i] >= 0

\* The part of C2 about the solver's own recursion.
SolverCountsNonNegative == \A i \in Ranks : card_distr[i] >= 0

\* get_probability is between its decrements and its restores with a count
\* of the caller's vector below 0.
NegativeCountWitness ==
    /\ Running("get_probability")
    /\ Top.pc \in {"second", "third"}
    /\ \A i \in Ranks : Top.entry[i] >= 0
    /\ \E i \in Ranks : caller_shoe[i] < 0

\* The second of two calls is made on the solver of the first: no solver is
\* constructed in between.
SameSolver(i, j) ==
    \A k \in (i + 1)..(j - 1) : out[k].op.op # "construct"

\* The cache is not released between the two calls.
SameCache(i, j) ==
    \A k \in (i + 1)..(j - 1) : out[k].op.op # "free_mem"

\* C3. Memoization idempotence: two calls of an entry point on one solver
\* with the same arguments and the same shoe return the same distribution
\* (the same answer, for a query), and when the cache was not released in
\* between the second call stores nothing in it.
MemoizationIdempotent ==
    \A i \in Done : \A j \in Done :
        (/\ i < j
         /\ out[i].op = out[j].op
         /\ out[i].shoe_in = out[j].shoe_in
         /\ SameSolver(i, j))
        => /\ out[i].d = out[j].d
           /\ out[i].b = out[j].b
           /\ SameCache(i, j) => out[i].stored = out[j].stored

\* The same draw loop was asked for twice, the first call filled the cache
\* and the second returned the same proper distribution.
MemoizationWitness ==
    /\ Len(out) = 4
    /\ out[3].op.op = "distr_hit_stand_double"
    /\ out[4].op = out[3].op
    /\ out[3].stored >= 3
    /\ out[4].stored = out[3].stored
    /\ Mass(out[3].d) = One
    /\ out[4].d = out[3].d

\* The key whose fields are the mode digit, the 13 two-digit counts, then
\* player_total, dealer_total and aces, each in a place of its own.
FieldsOf(c) ==
    <<c.mode>> \o c.shoe \o <<c.player_total, c.dealer_total, c.aces>>

\* C4. Hash bijectivity: with every count, player_total and dealer_total
\* in 0..99 and the mode in 0..5, the key get_state_hash returns has the
\* mode, each count, player_total, dealer_total and aces in a field of its
\* own, so the key determines the tuple and distinct tuples get distinct
\* keys.
HashBijective ==
    \A i \in 1..Len(probe) :
        (/\ \A r \in Ranks : probe[i].shoe[r] \in 0..99
         /\ probe[i].player_total \in 0..99
         /\ probe[i].dealer_total \in 0..99
         /\ probe[i].mode \in 0..5)
        => probe[i].key = FieldsOf(probe[i])

\* A key was taken with neighbouring fields at the top of their range.
HashBijectiveWitness ==
    /\ probe # <<>>
    /\ probe[1].mode = 5
    /\ probe[1].shoe[1] = 99
    /\ probe[1].shoe[13] = 99
    /\ probe[1].player_total = 99
    /\ probe[1].dealer_total = 99
    /\ probe[1].aces = 2
    /\ probe[1].key = FieldsOf(probe[1])

\* A step keeps every entry of the cache as it is.
CacheKept ==
    \A k \in DOMAIN precomp_distr :
        k \in DOMAIN precomp_distr' /\ precomp_distr'[k] = precomp_distr[k]

\* A step that empties the cache: free_mem, called by the client, at the
\* end of get_distr or by __dealloc__, or the construction of a new solver.
Released ==
    /\ precomp_distr' = <<>>
    /\ \/ Idle /\ Current.op \in {"free_mem", "construct", "dealloc"}
       \/ Running("get_distr")

\* C5. Write-once cache: since the cache was last emptied every key in it
\* has been assigned exactly once, and no step other than a release of the
\* cache removes an entry or replaces its distribution.
WriteOnce ==
    /\ [](/\ DOMAIN assigned = DOMAIN precomp_distr
          /\ \A k \in DOMAIN assigned : assigned[k] = 1)
    /\ [][CacheKept \/ Released]_vars

\* A query filled the cache, free_mem emptied it, and the same query filled
\* it again with as many assignments.
WriteOnceWitness ==
    /\ Len(out) = 4
    /\ out[3].op.op = "free_mem"
    /\ out[2].stored >= 3
    /\ out[4].stored = out[2].stored
    /\ \A k \in DOMAIN assigned : assigned[k] = 1
    /\ Cardinality(DOMAIN precomp_distr) = out[4].stored

\* The distribution the last activation returned.
Returned17 == Deref(ret.ptr)

\* No bucket is negative and the buckets sum to at most 1.
SubDistribution(d) ==
    /\ \A i \in Buckets : ~RLt(d[i], Zero) /\ ~IsNaN(d[i])
    /\ ~RGt(Mass(d), One)

\* C6 as stated. Every distribution distr_hit or distr_stand returns sums
\* to exactly 1.
DrawMassIsOne ==
    ret.fn \in {"distr_hit", "distr_stand"} => Mass(Returned17) = One

\* C6. Mass bound on draw distributions: every distribution distr_hit or
\* distr_stand returns has no negative bucket and sums to at most 1; it
\* sums to exactly 1 when no draw loop since the cache was last emptied
\* found the shoe without a card it may draw.
DrawMassBound ==
    ret.fn \in {"distr_hit", "distr_stand"}
        => /\ SubDistribution(Returned17)
           /\ ~starved => Mass(Returned17) = One

\* A draw loop over a shoe with cards returned a distribution of mass 1
\* spread over several payouts.
DrawMassWitness ==
    /\ ret.fn \in {"distr_hit", "distr_stand"}
    /\ ret.computed
    /\ ~starved
    /\ Mass(Returned17) = One
    /\ Cardinality({i \in Buckets : Returned17[i] # Zero}) >= 2

\* The buckets of the payouts -2, 0 and +2.
DoubledBuckets == {4, 8, 12}

\* C7 as stated. A distribution distr_double returns has mass only in the
\* buckets 4, 8 and 12 and sums to 1.
DoubleRangeMassOne ==
    ret.fn = "distr_double"
        => /\ \A i \in Buckets \ DoubledBuckets : Returned17[i] = Zero
           /\ Mass(Returned17) = One

\* C7. Doubling range: a distribution distr_double returns has mass only
\* in the buckets 4, 8 and 12 (the payouts -2, 0 and +2), no negative
\* bucket and a sum of at most 1; the sum is exactly 1 when no draw loop
\* since the cache was last emptied found the shoe without a card it may
\* draw.
DoubleRange ==
    ret.fn = "distr_double"
        => /\ \A i \in Buckets \ DoubledBuckets : Returned17[i] = Zero
           /\ SubDistribution(Returned17)
           /\ ~starved => Mass(Returned17) = One

\* A double on a shoe with cards returned mass 1 on more than one of the
\* doubled payouts.
DoubleRangeWitness ==
    /\ ret.fn = "distr_double"
    /\ ret.computed
    /\ ~starved
    /\ Mass(Returned17) = One
    /\ Cardinality({i \in DoubledBuckets : Returned17[i] # Zero}) >= 2

SplitModes == {"distr_split_general", "distr_split_tens", "distr_split_aces"}

\* A split has just convolved its per-sub-hand distribution ret.sub with
\* itself and returned the result.
SplitComputed == ret.fn \in SplitModes /\ ret.computed

Two == Rat(2, 1)

\* C8 as stated. The mass of a split distribution is at most 1 and its
\* expected payout is twice that of the per-sub-hand distribution.
SplitTwiceSubHand ==
    SplitComputed
        => /\ ~RGt(Mass(Returned17), One)
           /\ ExpectedValue(Returned17) = RMul(Two, ExpectedValue(ret.sub))

\* C8. Split convolution: a split distribution has no negative bucket, its
\* mass is the square of the mass m of the per-sub-hand distribution, so at
\* most 1, and its expected payout is 2 * m * the expected payout of the
\* per-sub-hand distribution: twice that expected payout when m = 1, as it
\* is when no draw loop since the cache was last emptied found the shoe
\* without a card it may draw.
SplitConvolution ==
    SplitComputed
        => LET m == Mass(ret.sub)
           IN  /\ SubDistribution(ret.sub)
               /\ SubDistribution(Returned17)
               /\ Mass(Returned17) = RMul(m, m)
               /\ ExpectedValue(Returned17)
                     = RMul(Two, RMul(m, ExpectedValue(ret.sub)))
               /\ ~starved => m = One

\* A split on a shoe that lasts: the sub-hand has mass 1 and an expected
\* payout other than 0, and the split has twice that.
SplitConvolutionWitness ==
    /\ SplitComputed
    /\ ~starved
    /\ Mass(ret.sub) = One
    /\ ExpectedValue(ret.sub) # Zero
    /\ Cardinality({i \in Buckets : ret.sub[i] # Zero}) >= 2
    /\ ExpectedValue(Returned17) = RMul(Two, ExpectedValue(ret.sub))

\* Results i and j are the same split, on the same shoe, of two solvers
\* whose rules differ in DOUBLE_AFTER_SPLIT alone: i has it, j has not.
SameSplitWithAndWithout(i, j) ==
    /\ i \in Done /\ j \in Done
    /\ i >= 3 /\ j >= 3
    /\ out[i].op.op \in SplitModes \cup {"distr_split"}
    /\ out[j].op = out[i].op
    /\ out[j].shoe_in = out[i].shoe_in
    /\ out[i - 2].op.op = "construct" /\ out[j - 2].op.op = "construct"
    /\ out[i - 2].op.util = out[j - 2].op.util
    /\ out[i - 2].op.rules.DOUBLE_AFTER_SPLIT
    /\ out[j - 2].op.rules =
          [out[i - 2].op.rules EXCEPT !.DOUBLE_AFTER_SPLIT = FALSE]

\* C9 as stated. The expected value of a split with DOUBLE_AFTER_SPLIT is
\* never lower than without it, on the same shoe and all other rules equal.
DoubleAfterSplitMonotone ==
    \A i \in 1..Len(out) : \A j \in 1..Len(out) :
        SameSplitWithAndWithout(i, j)
            => ~RLt(ExpectedValue(out[i].d), ExpectedValue(out[j].d))

\* C9. Rule-variation monotonicity: when in neither of the two solvers a
\* draw loop found the shoe without a card it may draw, the expected value
\* of a split with DOUBLE_AFTER_SPLIT is not lower than without it, on the
\* same shoe and all other rules equal.
DoubleAfterSplitMonotoneWhileCardsLast ==
    \A i \in 1..Len(out) : \A j \in 1..Len(out) :
        (/\ SameSplitWithAndWithout(i, j)
         /\ ~out[i].starved
         /\ ~out[j].starved)
            => ~RLt(ExpectedValue(out[i].d), ExpectedValue(out[j].d))

\* The same split was computed under both rules on a shoe that lasted, and
\* doubling after the split raised its expected value.
DoubleAfterSplitWitness ==
    \E i \in 1..Len(out) : \E j \in 1..Len(out) :
        /\ SameSplitWithAndWithout(i, j)
        /\ ~out[i].starved
        /\ ~out[j].starved
        /\ Mass(out[i].d) = One
        /\ Mass(out[j].d) = One
        /\ RGt(ExpectedValue(out[i].d), ExpectedValue(out[j].d))

\* A pair of 9s against an 8 on the shoe of an ace and a ten: the split is
\* worth 1/2 with DOUBLE_AFTER_SPLIT and 1 without.
DoubleAfterSplitLower ==
    \E i \in 1..Len(out) : \E j \in 1..Len(out) :
        /\ SameSplitWithAndWithout(i, j)
        /\ out[i].op.op = "distr_split_general"
        /\ out[i].op.pt = 9
        /\ out[i].op.dt = 8
        /\ CardsLeft(out[i].shoe_in) = 2
        /\ out[i].shoe_in[1] = 1
        /\ out[i].shoe_in[10] = 1
        /\ ExpectedValue(out[i].d) = <<1, 2>>
        /\ ExpectedValue(out[j].d) = One

\* The rule record is inside the supported envelope.
Supported(rules) ==
    /\ rules.BLACKJACK_PAYOUT = <<3, 2>>
    /\ rules.SHOE_SIZE < 25
    /\ rules.DEALER_PEEKS

\* C10. Configuration errors are fatal at construction: no solver exists,
\* constants built and entry points callable, under a rule record with
\* BLACKJACK_PAYOUT other than 1.5, SHOE_SIZE of 25 or more, or DEALER_PEEKS
\* false.
ConfigurationErrorsFatal == constructed => Supported(rule_variation)

\* A solver built under an unsupported rule record printed its message,
\* has its constants, and answered a call.
UnsupportedSolverUsed ==
    /\ constructed
    /\ ~Supported(rule_variation)
    /\ printed # <<>>
    /\ consts["WIN"] = constant_distr(2)
    /\ \E i \in Done : out[i].op.op = "distr_blackjack"
                        /\ Mass(out[i].d) = One

\* A call outside the preconditions: a count of the shoe below 0, a player
\* total above 31 or a dealer total outside 2..11.
ViolatesPrecondition(op, shoe) ==
    \/ \E i \in Ranks : shoe[i] < 0
    \/ op.pt > 31
    \/ op.dt \notin 2..11

\* Every division of a draw loop about to run is of a count by a total
\* other than 0, or of 0 by 0.
DivisionsDefined ==
    (/\ stack # <<>>
     /\ Top.fn \in {"distr_hit", "distr_stand"}
     /\ Top.pc = "loop")
    => LET valid == valid_card_distr(card_distr,
                                     IF Top.fn = "distr_stand"
                                     THEN StandBanned(Top) ELSE 0)
       IN  CardsLeft(valid) = 0 => \A i \in Ranks : valid[i] = 0

\* C11. Precondition violations are fatal: no call made with a count of the
\* shoe below 0, with player_total above 31 or with dealer_total outside
\* 2..11 ends by handing a distribution or a boolean to its caller.
PreconditionViolationsFatal ==
    \A i \in Done : ~ViolatesPrecondition(out[i].op, out[i].shoe_in)

\* Calls outside the preconditions were answered: distr_stand returned a
\* vector of mass 2 on a shoe with a count of -1, or the answer LOSE for a
\* player total of 32, and should_hit returned a boolean.
ViolationAnswered ==
    /\ Len(out) = 4
    /\ ViolatesPrecondition(out[3].op, out[3].shoe_in)
    /\ ViolatesPrecondition(out[4].op, out[4].shoe_in)
    /\ out[3].op.op = "distr_stand"
    /\ \/ Mass(out[3].d) = Two
       \/ out[3].op.pt = 32 /\ out[3].d = constant_distr(-2)
    /\ out[4].op.op = "should_hit"
    /\ out[4].b \in BOOLEAN

\* Every bucket is a number.
WellDefined(d) == \A k \in Buckets : ~IsNaN(d[k])

\* C12. Degenerate shoe: on a shoe with too few cards for a draw no
\* undefined value arises: every distribution an activation of the solver
\* returns, distr_blackjack for a dealer's 10 or 11 included, and every
\* distribution handed to a client, get_distr's included, has buckets that
\* are numbers.
DegenerateShoeWellDefined ==
    /\ ret.fn \in SolverEntries => WellDefined(Returned17)
    /\ \A i \in Done : WellDefined(out[i].d)

\* The bettor was asked about a shoe of an ace and two tens: once the
\* blackjack is dealt against a ten the shoe is empty, and the distribution
\* the bettor returns has buckets that are not numbers.
UndefinedBucketWitness ==
    \E i \in Done :
        /\ out[i].op.op = "get_distr"
        /\ CardsLeft(out[i].op.shoe) = 3
        /\ IsNaN(out[i].d[8])
        /\ IsNaN(out[i].d[11])

\* The buckets of the payouts 0 (TIE) and +1.5 (BLACKJACK).
TieBucket == 8

BlackjackBucket == 11

\* The number of cards of the shoe that give the dealer a blackjack: the
\* aces under a 10, the ten-valued cards under an ace.
CompletingCards(shoe, dealer_total) ==
    IF dealer_total = 10 THEN shoe[1]
    ELSE shoe[10] + shoe[11] + shoe[12] + shoe[13]

\* What C13 says of a distribution d returned by distr_blackjack(dt) on
\* the shoe `shoe` with dt of 10 or 11.
TieOrBlackjack(d, shoe, dealer_total) ==
    /\ \A k \in Buckets \ {TieBucket, BlackjackBucket} : d[k] = Zero
    /\ RAdd(d[TieBucket], d[BlackjackBucket]) = One
    /\ CardsLeft(shoe) > 0
    /\ d[TieBucket] = Rat(CompletingCards(shoe, dealer_total),
                          CardsLeft(shoe))

\* C13. Blackjack distribution: distr_blackjack(dt) returns the BLACKJACK
\* constant when dt < 10; for dt = 10 or 11 what it returns has mass only
\* in the TIE bucket and the BLACKJACK bucket, the two sum to 1, and the
\* TIE bucket holds the probability that the next card gives the dealer a
\* blackjack.
BlackjackDistribution ==
    ret.fn = "distr_blackjack"
        => IF ret.args[3] < 10
           THEN ret.ptr = CONSTANT_BLACKJACK
           ELSE TieOrBlackjack(Returned17, ret.entry, ret.args[3])

\* The same on the shoes that hold a card.
BlackjackDistributionWhileCardsLast ==
    (ret.fn = "distr_blackjack" /\ CardsLeft(ret.entry) > 0)
        => IF ret.args[3] < 10
           THEN ret.ptr = CONSTANT_BLACKJACK
           ELSE TieOrBlackjack(Returned17, ret.entry, ret.args[3])

\* distr_blackjack(11) computed its distribution on the empty shoe: the
\* TIE and the BLACKJACK bucket are not numbers.
BlackjackUndefinedWitness ==
    /\ ret.fn = "distr_blackjack"
    /\ ret.computed
    /\ ret.args[3] = 11
    /\ CardsLeft(ret.entry) = 0
    /\ IsNaN(Returned17[TieBucket])
    /\ IsNaN(Returned17[BlackjackBucket])

\* The ranks the dealer's next card may have: under a 10 with first_call
\* all but the ace, under an ace with first_call all but the ten-valued.
PeekAllowed(dealer_total, first_call) ==
    {r \in Ranks : /\ ~(first_call /\ dealer_total = 10 /\ r = 1)
                   /\ ~(first_call /\ dealer_total = 11 /\ r \in 10..13)}

\* The shoe without the cards the dealer's next card cannot be.
PeekShoe(shoe, dealer_total, first_call) ==
    [r \in Ranks |-> IF r \in PeekAllowed(dealer_total, first_call)
                     THEN shoe[r] ELSE 0]

\* The activation of distr_stand that has just drawn a card for the
\* dealer: the caller of the activation on top, then, when that has
\* returned, the activation on top.
DealerDraws ==
    {i \in {1, 2} : /\ i <= Len(stack)
                    /\ stack[i].fn = "distr_stand"
                    /\ stack[i].pc = "add"}

\* C14. Dealer peek: a card distr_stand draws with first_call is no ace
\* when the dealer shows 10 and no ten-valued card when the dealer shows
\* 11, so the dealer's first two cards are never a 21; its probability is
\* its count over the count of the cards that remain allowed, and these
\* probabilities sum to 1; with first_call false or another up-card the
\* probability is shoe[card] / total; the draws that follow are made with
\* first_call false.
DealerPeek ==
    \A i \in DealerDraws :
        LET f == stack[i]
            left == PeekShoe(f.entry, f.dt, f.fc)
            banned == IF f.fc /\ f.dt = 10 THEN 11
                      ELSE IF f.fc /\ f.dt = 11 THEN 10 ELSE 0
        IN  /\ f.card \in PeekAllowed(f.dt, f.fc)
            /\ f.fc => f.dt + get_value(f.card) # 21
            /\ CardsLeft(left) > 0
            /\ f.p = Rat(f.entry[f.card], CardsLeft(left))
            /\ RSum([r \in Ranks |-> card_probability(f.entry, r, banned)],
                    1, 13) = One
            /\ (~f.fc \/ f.dt \notin {10, 11})
                  => f.p = Rat(f.entry[f.card], CardsLeft(f.entry))
            /\ i > 1 => stack[i - 1].fn = "distr_stand" /\ ~stack[i - 1].fc

\* The dealer shows a 10 over a shoe with an ace and other cards: the
\* hidden card drawn is not the ace and its probability is above its
\* share of the whole shoe.
DealerPeekWitness ==
    \E i \in DealerDraws :
        /\ stack[i].fc
        /\ stack[i].dt = 10
        /\ stack[i].entry[1] > 0
        /\ stack[i].card # 1
        /\ RGt(stack[i].p,
               Rat(stack[i].entry[stack[i].card], CardsLeft(stack[i].entry)))
        /\ RLt(stack[i].p, One)

\* Results i and j are the two distributions that C15 says query k
\* compares, taken on the shoe passed to the query from the solver that
\* answers it.
ComparedBy(i, j, k) ==
    /\ i \in Done /\ j \in Done /\ k \in Done
    /\ i < k /\ j < k
    /\ out[k].op.op \in Queries
    /\ SameSolver(i, k) /\ SameSolver(j, k)
    /\ out[i].op = ComparedCalls(out[k].op.op, out[k].op.pt, out[k].op.aces,
                                 out[k].op.dt)[1]
    /\ out[j].op = ComparedCalls(out[k].op.op, out[k].op.pt, out[k].op.aces,
                                 out[k].op.dt)[2]
    /\ out[i].shoe_in = out[k].op.shoe
    /\ out[j].shoe_in = out[k].op.shoe

\* C15. Strategist queries are strict comparisons on the shoe passed in:
\* should_split answers whether the value of distr_split is above that of
\* distr_hit_stand_double, should_double whether distr_double is above
\* distr_hit_stand, should_hit whether distr_hit is above distr_stand with
\* first_call and dealer_aces = 1 exactly when dealer_total = 11; on equal
\* values the answer is false.
StrictComparison ==
    \A k \in 1..Len(out) :
        (k \in Done /\ out[k].op.op \in Queries)
            => \A i \in 1..(k - 1) : \A j \in 1..(k - 1) :
                  ComparedBy(i, j, k)
                      => LET first == distribution_value(out[i].d)
                             second == distribution_value(out[j].d)
                         IN  /\ out[k].b = (first[1] * second[2]
                                              > second[1] * first[2])
                             /\ first = second => out[k].b = FALSE

\* A query answered false on two different distributions of equal value
\* under a utility that tells payouts apart, after the solver had been
\* left with another shoe.
StrictComparisonWitness ==
    \E i \in 1..Len(out) : \E j \in 1..Len(out) : \E k \in 1..Len(out) :
        /\ ComparedBy(i, j, k)
        /\ out[k].shoe_in # NoShoe
        /\ out[k - 1].op.shoe = NoShoe
        /\ utility[12] # utility[4]
        /\ out[i].d # out[j].d
        /\ distribution_value(out[i].d) = distribution_value(out[j].d)
        /\ out[k].b = FALSE

\* The activations of the solver on the stack.
SolverFrames == {i \in 1..Len(stack) : stack[i].fn \in SolverEntries}

\* Those that wait in a draw loop for the call made with one card drawn.
DrawsInFlight == {i \in SolverFrames : stack[i].pc \in {"add", "addten"}}

\* Those that wait for their own call with one soft ace demoted.
DemotionsInFlight ==
    {i \in SolverFrames : /\ stack[i].fn \in {"distr_hit", "distr_stand"}
                          /\ stack[i].pc = "ret"}

\* The activation the client called: the outermost of the solver.
Outermost == stack[CHOOSE i \in SolverFrames : \A j \in SolverFrames : j <= i]

\* The soft aces of the hands an activation is called with: the player's
\* (a sub-hand of split aces holds one) and the dealer's.
SoftAcesAtEntry(f) ==
    (CASE f.fn = "distr_stand" -> 0
       [] f.fn = "distr_split_aces" -> 1
       [] OTHER -> f.aces)
    + (IF f.fn = "distr_stand" THEN f.aces ELSE is_ace(f.dt))

\* C16 as stated. The number of draws and demotions in flight is at most
\* the number of cards in the shoe the client's call started on plus the
\* number of soft aces of the hands it started on.
DepthWithinCardsAndSoftAces ==
    SolverFrames # {}
        => Cardinality(DrawsInFlight) + Cardinality(DemotionsInFlight)
              <= CardsLeft(Outermost.entry) + SoftAcesAtEntry(Outermost)

\* The place of a function in the calls that neither draw nor demote:
\* distr_split calls a split, a split the play of a sub-hand,
\* distr_hit_stand_double calls distr_hit_stand, distr_double and
\* distr_blackjack, distr_hit_stand calls distr_hit and distr_stand.
CallRank(fn) ==
    CASE fn = "distr_split" -> 5
      [] fn \in SplitModes -> 4
      [] fn = "distr_hit_stand_double" -> 3
      [] fn = "distr_hit_stand" -> 2
      [] OTHER -> 1

\* The call that activation i + 1 has made to activation i either runs on
\* a shoe with one card fewer (a draw), or on the same shoe with one soft
\* ace and 10 points fewer (a demotion), or on the same shoe in a function
\* further down the calls.
CallDescends(i) ==
    LET caller == stack[i + 1]
        callee == stack[i]
    IN  IF i + 1 \in DrawsInFlight
        THEN /\ CardsLeft(callee.entry) = CardsLeft(caller.entry) - 1
             /\ \A r \in Ranks : callee.entry[r] \in {caller.entry[r],
                                                        caller.entry[r] - 1}
        ELSE IF i + 1 \in DemotionsInFlight
        THEN /\ callee.entry = caller.entry
             /\ callee.fn = caller.fn
             /\ callee.aces = caller.aces - 1
             /\ callee.aces >= 0
        ELSE /\ callee.entry = caller.entry
             /\ CallRank(callee.fn) < CallRank(caller.fn)

\* The bound on the draws and demotions in flight.
DepthBound ==
    SolverFrames # {}
        => /\ Cardinality(DrawsInFlight) <= CardsLeft(Outermost.entry)
           /\ Cardinality(DrawsInFlight) + Cardinality(DemotionsInFlight)
                 <= CardsLeft(Outermost.entry) + SoftAcesAtEntry(Outermost)
                    + Outermost.entry[1]

\* C16. Termination: every call of the script returns; every call between
\* two activations of the solver runs on a shoe with one card fewer, or
\* demotes one soft ace, or goes further down the calls on the same shoe;
\* the draws in flight are at most the cards in the shoe at entry, and the
\* draws and demotions in flight at most those cards plus the soft aces at
\* entry plus the aces in the shoe.
Termination ==
    /\ [](/\ \A i \in SolverFrames : (i + 1) \in SolverFrames
                                          => CallDescends(i)
          /\ DepthBound)
    /\ <>(script = <<>> /\ stack = <<>>)

\* The dealer drew two aces onto a 6 and demoted one of them: two draws
\* and a demotion are in flight over a shoe that had two cards, below an
\* activation that started with no soft ace.
TerminationWitness ==
    /\ SolverFrames # {}
    /\ CardsLeft(Outermost.entry) = 2
    /\ SoftAcesAtEntry(Outermost) = 0
    /\ Cardinality(DrawsInFlight) = 2
    /\ Cardinality(DemotionsInFlight) = 1

\* The two distributions a returned choice compared, in the order of the
\* code's conditional expression.
FirstOperand == Deref(ret.sub[1])

SecondOperand == Deref(ret.sub[2])

\* C17 as stated. When distr_hit_stand_double returns after comparing a
\* hit/stand distribution and a double distribution of equal utility, it
\* returns the hit/stand distribution (the first operand).
ThreeWayTieKeepsFirst ==
    (/\ ret.fn = "distr_hit_stand_double"
     /\ ret.sub # <<>>
     /\ REq(distribution_value(FirstOperand),
            distribution_value(SecondOperand)))
        => Returned17 = FirstOperand

\* distr_hit_stand_double has returned the double distribution, which
\* differs from the hit/stand distribution of the same utility, under a
\* utility that tells payouts apart.
ThreeWayTieWitness ==
    /\ ret.fn = "distr_hit_stand_double"
    /\ ret.sub # <<>>
    /\ utility[12] # utility[4]
    /\ ~IsNaN(distribution_value(FirstOperand))
    /\ distribution_value(FirstOperand) = distribution_value(SecondOperand)
    /\ FirstOperand # SecondOperand
    /\ Returned17 = SecondOperand
    /\ ret.ptr[1] = "cache"

\* C18. distr_hit_stand returns the hit distribution only when its utility
\* is strictly greater than that of standing; when the two utilities are
\* equal it returns the stand distribution.
TwoWayTieKeepsStand ==
    ret.fn = "distr_hit_stand"
        => /\ ret.sub # <<>>
           /\ ret.ptr \in {ret.sub[1], ret.sub[2]}
           /\ ret.ptr = ret.sub[1] /\ ret.sub[1] # ret.sub[2]
                 => /\ ~IsNaN(distribution_value(FirstOperand))
                    /\ ~IsNaN(distribution_value(SecondOperand))
                    /\ RLt(distribution_value(SecondOperand),
                           distribution_value(FirstOperand))
           /\ REq(distribution_value(FirstOperand),
                  distribution_value(SecondOperand))
                 => ret.ptr = ret.sub[2]

\* distr_hit_stand has returned the stand distribution, which differs from
\* the hit distribution of the same utility, under a utility that tells
\* payouts apart.
TwoWayTieWitness ==
    /\ ret.fn = "distr_hit_stand"
    /\ utility[12] # utility[4]
    /\ ~IsNaN(distribution_value(FirstOperand))
    /\ distribution_value(FirstOperand) = distribution_value(SecondOperand)
    /\ FirstOperand # SecondOperand
    /\ ret.ptr = ret.sub[2]
    /\ Mass(FirstOperand) = One

\* distr_stand has just returned to the solver function that called it for
\* a player hand above 21, and scored the hand as bust; the client's call
\* started on a hand of at most 21.
ScoredBust ==
    /\ ret.fn = "distr_stand"
    /\ ret.args[1] > 21
    /\ ret.ptr = CONSTANT_LOSE
    /\ stack # <<>>
    /\ \/ Top.fn = "distr_hit_stand" /\ Top.pc = "got_stand"
       \/ Top.fn = "distr_double" /\ Top.pc = "add"
    /\ Outermost.fn \in {"distr_hit", "distr_hit_stand", "distr_double",
                         "distr_hit_stand_double"}
    /\ Outermost.pt <= 21

\* The soft aces the player's hand holds when the caller hands it to
\* distr_stand with the total it passes: distr_hit_stand has its own
\* count; distr_double counts the card it drew and the ace it demoted.
SoftAcesHeld(caller) ==
    IF caller.fn = "distr_double"
    THEN LET with_card == caller.aces + is_ace(get_value(caller.card))
         IN  IF caller.pt + get_value(caller.card) > 21 /\ with_card > 0
             THEN with_card - 1
             ELSE with_card
    ELSE caller.aces

\* C19 as stated. Starting from a hand of at most 21, a player hand is
\* scored as bust (LOSE because player_total > 21) only when it holds no
\* soft ace.
BustOnlyWithoutSoftAce == ScoredBust => SoftAcesHeld(Top) = 0

\* The player hit a soft 21 and drew an ace: distr_hit_stand demoted one
\* of the two soft aces and distr_stand scored the 22 that still holds
\* one as bust.
SoftBustAfterHit ==
    /\ ScoredBust
    /\ Top.fn = "distr_hit_stand"
    /\ Top.pt = 22
    /\ Top.aces = 1
    /\ Len(stack) >= 2
    /\ stack[2].fn = "distr_hit"
    /\ stack[2].pt = 21
    /\ stack[2].aces = 1
    /\ stack[2].card = 1

\* The same in distr_double: an ace doubled onto a soft 21.
SoftBustAfterDouble ==
    /\ ScoredBust
    /\ Top.fn = "distr_double"
    /\ Top.pt = 21
    /\ Top.aces = 1
    /\ Top.card = 1
    /\ ret.args[1] = 22

\* The dealer's hand once every soft ace that a total above 21 calls for
\* is demoted: <<soft aces, total>>.
RECURSIVE Settled(_, _)
Settled(dealer_aces, dealer_total) ==
    IF dealer_total > 21 /\ dealer_aces > 0
    THEN Settled(dealer_aces - 1, dealer_total - 10)
    ELSE <<dealer_aces, dealer_total>>

\* The dealer's rule: stop above 17, and on 17 unless it is soft and
\* HIT_SOFT_17 is set.
DealerStops(dealer_aces, dealer_total) ==
    \/ dealer_total > 17
    \/ dealer_total = 17 /\ dealer_aces = 0
    \/ dealer_total = 17 /\ ~rule_variation.HIT_SOFT_17

\* C20. Dealer play in distr_stand: a player total above 21 is LOSE
\* whatever the dealer holds; otherwise a dealer total above 21 is demoted
\* by 10 per soft ace before any decision and is WIN with no soft ace
\* left; the dealer stops exactly when the total is above 17, or is 17 and
\* no soft ace is held or HIT_SOFT_17 is off, and then the outcome is TIE
\* on equal totals, LOSE when the dealer is higher, WIN when lower;
\* otherwise the dealer draws: the result is the entry of the cache
\* computed by the draw loop for that hand, whose every draw continues
\* with the card's value added and first_call false.
DealerPlay ==
    /\ ret.fn = "distr_stand"
          => LET player_total == ret.args[1]
                 hand == Settled(ret.args[2], ret.args[3])
                 dealer_aces == hand[1]
                 dealer_total == hand[2]
                 first_call == ret.args[4] /\ ret.args[3] <= 21
             IN  IF player_total > 21 THEN ret.ptr = CONSTANT_LOSE
                 ELSE IF dealer_total > 21 THEN ret.ptr = CONSTANT_WIN
                 ELSE IF DealerStops(dealer_aces, dealer_total)
                 THEN /\ dealer_total = player_total
                            => ret.ptr = CONSTANT_TIE
                      /\ dealer_total > player_total
                            => ret.ptr = CONSTANT_LOSE
                      /\ dealer_total < player_total
                            => ret.ptr = CONSTANT_WIN
                 ELSE ret.ptr
                        = CachePtr(get_state_hash(ret.entry, player_total,
                                                  dealer_aces, dealer_total,
                                                  IF first_call THEN 3
                                                  ELSE 4))
    /\ (stack # <<>> /\ Top.fn = "distr_stand"
                     /\ Top.pc \in {"loop", "add"})
          => /\ Top.pt <= 21
             /\ Top.dt <= 17
             /\ ~DealerStops(Top.aces, Top.dt)
    /\ (stack # <<>> /\ Top.fn = "distr_stand" /\ Top.pc = "add")
          => /\ ret.fn = "distr_stand"
             /\ ret.args = <<Top.pt, Top.aces + is_ace(get_value(Top.card)),
                             Top.dt + get_value(Top.card), FALSE>>

\* Under HIT_SOFT_17 the dealer drew on a soft 17 (the result was computed
\* by the draw loop); the hand had come from a total above 21 by the
\* demotion of a soft ace.
DealerPlayWitness ==
    /\ ret.fn = "distr_stand"
    /\ rule_variation.HIT_SOFT_17
    /\ ret.args[1] <= 21
    /\ ret.args[3] = 27
    /\ ret.args[2] = 2
    /\ ret.ptr[1] = "cache"
    /\ Mass(Returned17) = One

\* Without HIT_SOFT_17 the dealer stood on a soft 17 against a player 18.
DealerStandsOnSoft17 ==
    /\ ret.fn = "distr_stand"
    /\ ~rule_variation.HIT_SOFT_17
    /\ ret.args = <<18, 1, 17, FALSE>>
    /\ ret.ptr = CONSTANT_WIN

\* The probability distr_split_aces draws a card with: its count over the
\* cards of the shoe the activation started on.
DrawProbability(shoe, card) ==
    IF CardsLeft(shoe) = 0 THEN Zero ELSE Rat(shoe[card], CardsLeft(shoe))

\* The probabilities of the ranks below card, summed.
DrawnBelow(shoe, card) ==
    RSum([r \in Ranks |-> DrawProbability(shoe, r)], 1, card - 1)

\* C21. Split-aces rules: the sub-hand of a split ace that draws a card of
\* rank 1..9 is (11 + card, one soft ace) played by distr_hit_stand_double
\* under HIT_AFTER_SPLIT_ACES and DOUBLE_AFTER_SPLIT, by distr_hit_stand
\* under HIT_AFTER_SPLIT_ACES alone, and otherwise distr_stand(11 + card,
\* first_call = true); a card of rank 10..13 is credited the BLACKJACK
\* constant under BLACKJACK_WITH_SPLIT_ACES and otherwise
\* distr_stand(21, first_call = true); every call runs on the shoe without
\* the card and is weighted by the card's draw probability; the ranks
\* contribute once each: while no shoe has run out the mass accumulated is
\* the sum of the probabilities of the ranks passed; the result is the
\* self-convolution of the accumulator.
SplitAcesRules ==
    /\ (stack # <<>> /\ Top.fn = "distr_split_aces" /\ Top.pc = "add")
          => /\ Top.card \in 1..9
             /\ ret.fn = (IF ~rule_variation.HIT_AFTER_SPLIT_ACES
                          THEN "distr_stand"
                          ELSE IF rule_variation.DOUBLE_AFTER_SPLIT
                          THEN "distr_hit_stand_double"
                          ELSE "distr_hit_stand")
             /\ ret.args = (IF rule_variation.HIT_AFTER_SPLIT_ACES
                            THEN <<11 + Top.card, 1, Top.dt, FALSE>>
                            ELSE <<11 + Top.card, is_ace(Top.dt), Top.dt,
                                   TRUE>>)
             /\ ret.entry = [Top.entry EXCEPT ![Top.card] = @ - 1]
             /\ Top.p = DrawProbability(Top.entry, Top.card)
             /\ RGt(Top.p, Zero)
    /\ (stack # <<>> /\ Top.fn = "distr_split_aces" /\ Top.pc = "addten")
          => /\ Top.card \in 10..13
             /\ ~rule_variation.BLACKJACK_WITH_SPLIT_ACES
             /\ ret.fn = "distr_stand"
             /\ ret.args = <<21, is_ace(Top.dt), Top.dt, TRUE>>
             /\ ret.entry = [Top.entry EXCEPT ![Top.card] = @ - 1]
             /\ Top.p = DrawProbability(Top.entry, Top.card)
             /\ RGt(Top.p, Zero)
    /\ (stack # <<>> /\ Top.fn = "distr_split_aces"
                     /\ Top.pc \in {"loop", "tens"} /\ ~starved)
          => Mass(Top.distr) = DrawnBelow(Top.entry, Top.card)
    /\ (ret.fn = "distr_split_aces" /\ ret.computed)
          => /\ Returned17 = double_variable(ret.sub)
             /\ ret.sub[BlackjackBucket]
                  = (IF rule_variation.BLACKJACK_WITH_SPLIT_ACES
                     THEN RSum([r \in Ranks |->
                                   DrawProbability(ret.entry, r)], 10, 13)
                     ELSE Zero)
             /\ ~starved => Mass(ret.sub) = One

\* Split aces under HIT_AFTER_SPLIT_ACES and BLACKJACK_WITH_SPLIT_ACES on a
\* shoe with a small card and a ten-valued one: the result holds the
\* sub-hand that drew the small card and the blackjack of the other.
SplitAcesWitness ==
    /\ ret.fn = "distr_split_aces"
    /\ ret.computed
    /\ rule_variation.HIT_AFTER_SPLIT_ACES
    /\ rule_variation.BLACKJACK_WITH_SPLIT_ACES
    /\ ret.entry[5] > 0
    /\ ret.entry[10] + ret.entry[13] > 0
    /\ RGt(ret.sub[BlackjackBucket], Zero)
    /\ RLt(ret.sub[BlackjackBucket], One)
    /\ Mass(ret.sub) = One

\* The sum of d[a] * d[b] over the pairs (a, b) of 0..16 x 0..16 with
\* a + b - 8 = k and a below the bound `rows`.
PairSum(d, k, rows) ==
    RSum([a \in Buckets |->
             RSum([b \in Buckets |->
                      IF a + b - 8 = k /\ a < rows
                      THEN RMul(d[a], d[b])
                      ELSE Zero], 0, 16)], 0, 16)

\* C22. double_variable: result bucket k is the sum of d[i] * d[j] over
\* all pairs (i, j) of 0..16 with i + j - 8 = k; products whose index falls
\* outside 0..16 are added to no bucket; only the array as passed in is
\* read: it is untouched until the last loop copies the result, and after
\* i turns the local array holds the sums over the pairs with first index
\* below i.
ConvolutionByPairs ==
    \A n \in 1..Len(probe) :
        "tmp" \in DOMAIN probe[n]
            => LET c == probe[n]
               IN  /\ c.i \in 0..17
                     => /\ c.distr = c.input
                        /\ \A k \in Buckets :
                              c.tmp[k] = PairSum(c.input, k, c.i)
                   /\ c.i = 18
                     => /\ \A k \in Buckets :
                              c.distr[k] = PairSum(c.input, k, 17)
                        /\ c.distr = double_variable(c.input)

\* An input with mass in buckets 4 and 16 was convolved: the product of
\* bucket 16 with itself (index 24) is in no bucket, so the result has less
\* mass than the square of the input's.
ConvolutionWitness ==
    /\ probe # <<>>
    /\ "tmp" \in DOMAIN probe[1]
    /\ probe[1].i = 18
    /\ RGt(probe[1].input[4], Zero)
    /\ RGt(probe[1].input[16], Zero)
    /\ probe[1].distr[12] = RMul(Rat(2, 1), RMul(probe[1].input[4],
                                                 probe[1].input[16]))
    /\ RLt(Mass(probe[1].distr),
           RMul(Mass(probe[1].input), Mass(probe[1].input)))

\* The wrapper's free_mem has been called and has not returned.
WrapperReleasing ==
    \/ Idle /\ Current.op = "wrapped_free_mem"
    \/ Running("wrapped_free_mem")

\* C30 as stated. WrappedRewardDistribution.free_mem terminates, and when
\* it has returned the cache of the wrapped solver is empty.
WrapperReleaseTerminates ==
    WrapperReleasing ~> (~WrapperReleasing /\ precomp_distr = <<>>)

\* The wrapper's free_mem is MaxDepth activations deep in itself and the
\* cache of the wrapped solver holds what the test computed.
WrapperRecursing ==
    /\ Len(stack) = MaxDepth
    /\ \A i \in 1..Len(stack) : stack[i].fn = "wrapped_free_mem"
    /\ precomp_distr # <<>>
    /\ Len(out) = 3

-----------------------------------------------------------------------------
\* The four constant distributions as the constructor builds them.
ConstantsBuilt ==
    /\ consts["TIE"] = constant_distr(0)
    /\ consts["WIN"] = constant_distr(2)
    /\ consts["BLACKJACK"] = constant_distr(3)
    /\ consts["LOSE"] = constant_distr(-2)

\* The client's last operation was fn and it has returned.
JustReturned(fn) ==
    /\ stack = <<>>
    /\ out # <<>>
    /\ out[Len(out)].op.op = fn

\* The cache was released at or after result i and before result j.
ReleasedBetween(i, j) ==
    \E k \in i..(j - 1) : out[k].op.op \in {"free_mem", "get_distr"}

\* C23. Solver lifecycle: right after free_mem, and right after every
\* KellyBettor.get_distr, the cache is empty and the four constants are as
\* the constructor built them; the solver stays usable, and a call made
\* after the release returns what the same call on the same shoe returned
\* before it.
SolverLifecycle ==
    /\ (JustReturned("free_mem") \/ JustReturned("get_distr")) =>
           /\ precomp_distr = <<>>
           /\ constructed
           /\ ConstantsBuilt
    /\ \A i \in Done : \A j \in Done :
           (/\ i < j
            /\ out[i].op = out[j].op
            /\ out[i].shoe_in = out[j].shoe_in
            /\ SameSolver(i, j)
            /\ ReleasedBetween(i, j)) =>
               /\ out[j].d = out[i].d
               /\ out[j].b = out[i].b

\* A distribution was computed, the cache released, and the same call
\* computed it again from an empty cache.
LifecycleWitness ==
    /\ JustReturned("distr_hit_stand_double")
    /\ Len(out) = 5
    /\ out[4].op.op = "free_mem"
    /\ out[3].op = out[5].op
    /\ out[3].stored > 0
    /\ out[5].stored = out[3].stored
    /\ out[5].d # empty_distr
    /\ precomp_distr # <<>>

-----------------------------------------------------------------------------
\* The functions that keep their result in the cache.
Memoized ==
    {"distr_hit", "distr_stand", "distr_double", "distr_split_general",
     "distr_split_tens", "distr_split_aces"}

\* The fields of the key an activation of fn with the arguments args asks
\* for on the shoe: the mode, the counts, the player's field, the dealer's
\* and the aces.
KeyFields(fn, args, shoe) ==
    CASE fn = "distr_hit" ->
           <<2>> \o shoe \o <<args[1], args[3], args[2]>>
      [] fn = "distr_stand" ->
           <<IF args[4] THEN 3 ELSE 4>> \o shoe \o <<args[1], args[3], args[2]>>
      [] fn = "distr_double" ->
           <<1>> \o shoe \o <<args[1], args[3], args[2]>>
      [] fn = "distr_split_general" ->
           <<0>> \o shoe \o <<args[1], args[3], 0>>
      [] fn = "distr_split_tens" ->
           <<0>> \o shoe \o <<10, args[3], 0>>
      [] fn = "distr_split_aces" ->
           <<0>> \o shoe \o <<11, args[3], 1>>

\* The activations that hold a key: past their lookup, in their loop.
KeyHolders ==
    {i \in 1..Len(stack) : stack[i].fn \in Memoized /\ stack[i].key # <<>>}

\* The activation reaches its own lookup: it neither demotes an ace nor
\* answers with a constant.
LooksUp(fn, args) ==
    CASE fn = "distr_hit" -> args[1] <= 21
      [] fn = "distr_stand" ->
           /\ args[1] <= 21
           /\ args[3] <= 21
           /\ ~DealerStands(args[3], args[2])
      [] OTHER -> fn \in Memoized

\* C24. Key/shoe consistency: the key an activation holds is the key of its
\* arguments on the shoe at its entry; between the turns of its loop, and so
\* when it stores, the working shoe is that entry shoe; the entry it stores
\* is filed under that key; an activation called from a loop entered on the
\* shoe less the card drawn and holds the key of that shoe; a lookup that
\* finds an entry finds the one of the shoe as it is at the lookup.
KeyShoeConsistency ==
    /\ \A i \in KeyHolders :
           /\ stack[i].key
                = KeyFields(stack[i].fn, ArgsOf(stack[i]), stack[i].entry)
           /\ (i = 1 /\ stack[i].pc \in {"loop", "tens"})
                  => card_distr = stack[i].entry
           /\ (i = 1 /\ stack[i].pc \in {"add", "addten"})
                  => card_distr = Without(stack[i].entry, stack[i].card)
           /\ (i > 1 /\ stack[i].pc \in {"add", "addten"})
                  => stack[i - 1].entry
                        = Without(stack[i].entry, stack[i].card)
    /\ (ret.fn \in Memoized /\ ret.computed) =>
           /\ ret.exit = ret.entry
           /\ ret.ptr = CachePtr(KeyFields(ret.fn, ret.args, ret.entry))
           /\ KeyFields(ret.fn, ret.args, ret.entry) \in DOMAIN precomp_distr
    /\ (ret.fn \in Memoized /\ ~ret.computed /\ LooksUp(ret.fn, ret.args)
        /\ ret.ptr[1] = "cache") =>
           ret.ptr = CachePtr(KeyFields(ret.fn, ret.args, ret.exit))

\* An activation two draws deep stored its distribution: the shoe is back to
\* the one it entered on, which lacks the cards drawn above it.
KeyShoeWitness ==
    /\ ret.fn \in Memoized
    /\ ret.computed
    /\ Len(stack) >= 3
    /\ \E i \in KeyHolders : \E j \in KeyHolders :
          /\ i < j
          /\ stack[i].pc = "add"
          /\ stack[j].pc = "add"
          /\ ret.entry = Without(stack[i].entry, stack[i].card)
          /\ stack[j].entry # stack[i].entry
          /\ CardsLeft(ret.entry) > 0

-----------------------------------------------------------------------------
\* The probability of dealing the three cards in order from the shoe.
DealProbability(shoe, first, second, shown) ==
    LET n == CardsLeft(shoe)
        after_first == [shoe EXCEPT ![first] = @ - 1]
        after_second == [after_first EXCEPT ![second] = @ - 1]
    IN  IF n < 3 THEN Zero
        ELSE RMul(RMul(RDiv(shoe[first], n),
                       RDiv(after_first[second], n - 1)),
                  RDiv(after_second[shown], n - 2))

\* The chance of a dealer blackjack as get_distr weighs it: none under a
\* card below ten, the aces of the full shoe under a ten, its ten-valued
\* cards under an ace, over all its cards.
DealerBlackjackWeight(shoe, shown) ==
    CASE shown = 1 ->
           RDiv(shoe[10] + shoe[11] + shoe[12] + shoe[13], CardsLeft(shoe))
      [] shown >= 10 -> RDiv(shoe[1], CardsLeft(shoe))
      [] OTHER -> Zero

\* The aggregate after the deal in f is credited with the play `best`.
Credited(f, best) ==
    LET p == DealProbability(caller_shoe, f.pt, f.aces, f.dt)
        q == DealerBlackjackWeight(caller_shoe, f.dt)
        held == get_player(f.pt, f.aces)[1]
    IN  [i \in Buckets |->
            RAdd(RAdd(f.distr[i], RMul(RMul(p, RSub(One, q)), best[i])),
                 IF i = (IF held = 21 THEN 8 ELSE 6) THEN RMul(p, q)
                 ELSE Zero)]

\* get_distr moves on to the next deal.
DealSettled ==
    /\ Running("get_distr")
    /\ Len(stack') = Len(stack)
    /\ stack'[1].pc = "deal"

\* C25. Pre-deal aggregation: get_distr weighs every ordered deal by its
\* draw probability p on the full shoe and skips it when p = 0; otherwise
\* it plays the hand on the full shoe less the three cards (distr_split on
\* the same shoe for a pair, taken when its value is strictly greater) and
\* adds p*(1-q) times that distribution and p*q in the TIE bucket when the
\* player holds 21, in the LOSE bucket otherwise, q being the blackjack
\* weight of the full shoe.
PreDealAggregation ==
    [][Running("get_distr") =>
          LET f == Top
              player == get_player(f.pt, f.aces)
              removed == remove_cards(caller_shoe, f.pt, f.aces, f.dt)
          IN  /\ f.pc = "got_p" =>
                    /\ ret.val = DealProbability(caller_shoe, f.pt, f.aces,
                                                 f.dt)
                    /\ DealSettled <=> ret.val = Zero
                    /\ DealSettled => stack'[1].distr = f.distr
                    /\ ~DealSettled =>
                          /\ card_distr' = removed
                          /\ stack'[1].fn = "distr_hit_stand_double"
                          /\ ArgsOf(stack'[1])
                               = <<player[1], player[2],
                                   kelly_get_value(f.dt), FALSE>>
              /\ f.pc = "got_hit_stand_double" =>
                    /\ ret.fn = "distr_hit_stand_double"
                    /\ ret.entry = removed
                    /\ ret.exit = removed
                    /\ DealSettled =>
                          stack'[1].distr = Credited(f, Deref(ret.ptr))
                    /\ ~DealSettled =>
                          /\ stack'[1].fn = "distr_split"
                          /\ card_distr' = removed
                          /\ stack'[2].y = Deref(ret.ptr)
                          /\ stack'[2].distr = f.distr
              /\ f.pc = "got_split" =>
                    /\ ret.fn = "distr_split"
                    /\ ret.entry = removed
                    /\ DealSettled
                    /\ stack'[1].distr
                         = Credited(f, IF RGt(distribution_value(Deref(ret.ptr)),
                                              distribution_value(f.y))
                                       THEN Deref(ret.ptr) ELSE f.y)
      ]_vars

\* A deal under a ten or an ace was credited: the aggregate holds mass in
\* the LOSE bucket and the dealer-blackjack weight of the shoe is not 0.
PreDealWitness ==
    /\ Running("get_distr")
    /\ Top.pc = "deal"
    /\ RGt(Top.p, Zero)
    /\ Top.distr[6] # Zero
    /\ Top.distr[11] # Zero
    /\ CardsLeft(caller_shoe) >= 4
    /\ RGt(DealerBlackjackWeight(caller_shoe, 10), Zero)

-----------------------------------------------------------------------------
\* The names of the four constants.
ConstantNames == {"TIE", "WIN", "BLACKJACK", "LOSE"}

\* C26. Constant distributions are read-only: while the solver exists WIN,
\* LOSE, TIE and BLACKJACK hold what the constructor wrote, whatever entry
\* point, add, double_distr, double_variable or free_mem has run; a constant
\* is handed back by reference and never as a result that was just stored;
\* no key of the cache leads to a constant; the constants are gone only
\* once the solver is destroyed.
ConstantsReadOnly ==
    /\ constructed => ConstantsBuilt
    /\ ~constructed => \A name \in ConstantNames : consts[name] = empty_distr
    /\ ret.ptr[1] = "const" =>
           /\ ret.ptr[2] \in ConstantNames
           /\ ~ret.computed
    /\ ret.computed =>
           /\ ret.ptr[1] = "cache"
           /\ ret.ptr[2] \in DOMAIN precomp_distr
    /\ \A i \in 1..Len(stack) :
           stack[i].x # NullPtr => stack[i].x[1] \in {"cache", "const"}

\* A draw loop has added the LOSE constant into its accumulator and stored
\* the result in the cache; the constant is as it was built.
ConstantsWitness ==
    /\ constructed
    /\ ret.computed
    /\ ret.fn = "distr_hit"
    /\ Deref(ret.ptr)[6] # Zero
    /\ Deref(ret.ptr) # consts["LOSE"]
    /\ precomp_distr # <<>>

\* The solver was destroyed after use: the constants are freed with it.
ConstantsFreed ==
    /\ ~constructed
    /\ out # <<>>
    /\ out[Len(out)].op.op = "dealloc"
    /\ precomp_distr = <<>>

-----------------------------------------------------------------------------
\* The construction of the solver that gave result i.
SolverOf(i) ==
    out[CHOOSE k \in 1..i :
            /\ out[k].op.op = "construct"
            /\ \A l \in (k + 1)..i : out[l].op.op # "construct"].op

\* Results i and j answer the same call on the same shoe, on one solver or
\* on two built alike.
SameCall(i, j) ==
    /\ i < j
    /\ out[i].op = out[j].op
    /\ out[i].op.op \in SolverEntries
    /\ out[i].shoe_in = out[j].shoe_in
    /\ SolverOf(i) = SolverOf(j)

\* C27. Cache transparency: whatever was called before on the solver, a
\* call returns what a solver with an empty cache returns for the same shoe
\* and arguments; distr_split_general(player_card, dt) for any player_card
\* shares no key with distr_split_tens(dt).
CacheTransparency ==
    \A i \in Done : \A j \in Done : SameCall(i, j) => out[i].d = out[j].d

\* distr_split_tens was answered from the entry distr_split_general(10, dt)
\* stored, which is not what it computes on an empty cache.
SplitKeysAliased ==
    /\ Len(out) = 7
    /\ out[3].op.op = "distr_split_general"
    /\ out[3].op.pt = 10
    /\ out[3].stored > 0
    /\ out[4].op.op = "distr_split_tens"
    /\ out[4].stored = out[3].stored
    /\ out[4].d = out[3].d
    /\ out[7].op = out[4].op
    /\ out[7].shoe_in = out[4].shoe_in
    /\ out[7].d # out[4].d

-----------------------------------------------------------------------------
\* The buckets that hold mass.
Support(d) == {i \in Buckets : d[i] # Zero}

\* The three functions that convolve a sub-hand with itself.
Splits == {"distr_split_general", "distr_split_tens", "distr_split_aces"}

\* C28. No mass is lost in the transforms: the accumulator distr_double
\* hands to double_distr has its mass on the buckets 6, 8 and 10, and the
\* result has the same mass; the accumulator a split hands to
\* double_variable has its mass on the buckets 4..12, whatever the rule
\* flags, and the result has the square of its mass.
NoMassLost ==
    /\ (ret.fn = "distr_double" /\ ret.computed) =>
           /\ Support(ret.sub) \subseteq {6, 8, 10}
           /\ Mass(Returned17) = Mass(ret.sub)
    /\ (ret.fn \in Splits /\ ret.computed) =>
           /\ Support(ret.sub) \subseteq 4..12
           /\ Mass(Returned17) = RMul(Mass(ret.sub), Mass(ret.sub))

\* A split whose sub-hand may lose a doubled bet: the product of the two
\* ends up in the lowest bucket, and none is lost.
NoMassLostWitness ==
    /\ ret.fn \in Splits
    /\ ret.computed
    /\ ret.sub[4] # Zero
    /\ Returned17[0] # Zero
    /\ Mass(ret.sub) # Zero

\* distr_double doubled an accumulator with mass on a losing and a winning
\* payout.
DoubledBothEnds ==
    /\ ret.fn = "distr_double"
    /\ ret.computed
    /\ ret.sub[6] # Zero
    /\ ret.sub[10] # Zero

-----------------------------------------------------------------------------
\* The deal in f gives the player a two-card 21 under a ten or an ace.
NaturalUnderTenOrAce(f) ==
    /\ get_player(f.pt, f.aces) = <<21, 1>>
    /\ kelly_get_value(f.dt) >= 10

\* C29. Dealer blackjack is counted once: for a deal of a two-card 21 under
\* a ten or an ace, get_distr adds p*q to the TIE bucket and p*(1-q) to the
\* BLACKJACK bucket, and the distribution distr_hit_stand_double returned
\* for the hand holds no TIE mass.
DealerBlackjackOnce ==
    [][(/\ Running("get_distr")
        /\ Top.pc = "got_hit_stand_double"
        /\ NaturalUnderTenOrAce(Top)
        /\ DealSettled) =>
           LET f == Top
               p == DealProbability(caller_shoe, f.pt, f.aces, f.dt)
               q == DealerBlackjackWeight(caller_shoe, f.dt)
           IN  /\ Deref(ret.ptr)[8] = Zero
               /\ stack'[1].distr[8] = RAdd(f.distr[8], RMul(p, q))
               /\ stack'[1].distr[11]
                    = RAdd(f.distr[11], RMul(p, RSub(One, q)))
      ]_vars

\* distr_hit_stand_double answered a two-card 21 under a ten or an ace with
\* TIE mass for the dealer's blackjack, which get_distr weighs once more.
DealerBlackjackTwice ==
    /\ Running("get_distr")
    /\ Top.pc = "got_hit_stand_double"
    /\ NaturalUnderTenOrAce(Top)
    /\ ret.fn = "distr_hit_stand_double"
    /\ RGt(Deref(ret.ptr)[8], Zero)
    /\ RGt(DealerBlackjackWeight(caller_shoe, Top.dt), Zero)
    /\ RGt(Top.p, Zero)

====
